---- MODULE Spec2Model ----
(***************************************************************************)
(* A model of the lurkcoin ledger core: fixed-point Currency, Server       *)
(* accounts, the payment engine, the exchange-rate function, the generic   *)
(* account lock manager, the plaintext backend and DatabaseTransaction.    *)
(*                                                                         *)
(* Currency values are integers counting hundredths, as Currency.raw does. *)
(* Strings that the code inspects character by character (server names,    *)
(* user names) are sequences of one-character strings.                     *)
(***************************************************************************)
EXTENDS Integers, Sequences, FiniteSets, TLC

VARIABLES
    \* Server.AddToHistory harness
    hServer, hAdded,
    \* GenerateTransactionID: the clock and the package-level variables
    now, lastTime, previouslyGenerated, issued,
    \* DatabaseTransaction.GetServers harness
    gNames, gDone, gOut, gLocks,
    \* genericDbLock with its callers
    lkSup, lkMap, lkLocked, lkOwner, lkPc, lkIds, lkCached, lkRound, lkPanic,
    \* Server.Pay harness: the accounts, the arguments, the position, the
    \* result and the accounts as they were at the call
    pCache, pArgs, pPc, pOut, pBefore,
    \* the ledger: the store, the holder of the store's write lock, the
    \* account locks, and for every goroutine its position, its request, its
    \* DatabaseTransaction and its local variables; the requests made so far
    db, dbWriter, dblock, pc, req, tr, loc, reqCount

histVars == <<hServer, hAdded>>
idVars   == <<now, lastTime, previouslyGenerated, issued>>
getVars  == <<gNames, gDone, gOut, gLocks>>
lockVars == <<lkSup, lkMap, lkLocked, lkOwner, lkPc, lkIds, lkCached, lkRound,
              lkPanic>>
payVars  == <<pCache, pArgs, pPc, pOut, pBefore>>
ledgerVars == <<db, dbWriter, dblock, pc, req, tr, loc, reqCount>>
vars     == <<hServer, hAdded, now, lastTime, previouslyGenerated, issued,
              gNames, gDone, gOut, gLocks,
              lkSup, lkMap, lkLocked, lkOwner, lkPc, lkIds, lkCached, lkRound,
              lkPanic, pCache, pArgs, pPc, pOut, pBefore,
              db, dbWriter, dblock, pc, req, tr, loc, reqCount>>

(***************************************************************************)
(* Bounds of the model.                                                    *)
(***************************************************************************)
MaxAdds == 12      \* AddToHistory calls made on one account
MaxTime == 2       \* last clock second
MaxRand == 2       \* rand.Uint32() draws from 0..MaxRand
MaxIssued == 3     \* GenerateTransactionID calls that are recorded
MaxNames == 3      \* names given to one DatabaseTransaction.GetServers call
MaxRounds == 1     \* Lock/Unlock rounds of each goroutine that locks
MaxBalance == 3    \* largest balance an account has when Pay is called on it
MaxRequests == 2   \* HTTP requests the ledger receives
MaxCalls == 3      \* calls of one method on one account
MaxStoreCalls == 2 \* fetch and create calls made on the store
MaxAgain == 1      \* further Finish or Abort calls on one DatabaseTransaction

(***************************************************************************)
(* Small helpers.                                                          *)
(***************************************************************************)
Sign(x) == IF x > 0 THEN 1 ELSE IF x < 0 THEN -1 ELSE 0

Abs(x) == IF x < 0 THEN -x ELSE x

\* big.Float.Int / big.Int truncation: the quotient n/d truncated towards zero.
Trunc(n, d) == Sign(n) * Sign(d) * (Abs(n) \div Abs(d))

Range(s) == {s[i] : i \in 1..Len(s)}

Range2(f) == {f[x] : x \in DOMAIN f}

RECURSIVE Rep(_, _)
Rep(c, n) == IF n = 0 THEN <<>> ELSE <<c>> \o Rep(c, n - 1)

(***************************************************************************)
(* Server names and user names.                                            *)
(***************************************************************************)
\* strings.ToLower on one character.
ToLower(c) ==
    CASE c = "A" -> "a"
      [] c = "B" -> "b"
      [] c = "C" -> "c"
      [] OTHER -> c

\* The characters the regular expression [^a-z0-9\_] does not match.
ValidUidChars == {"a", "b", "c", "u", "v", "x", "0", "1", "_"}

\* The replacement rune U+FFFD that PasteuriseUsername substitutes.
ReplacementChar == "?"

\* Characters for which unicode.IsGraphic is false.
NonGraphicChars == {"\t", "\n"}

RECURSIVE RemoveSpaces(_)
RemoveSpaces(s) ==
    IF s = <<>> THEN <<>>
    ELSE IF Head(s) = " " THEN RemoveSpaces(Tail(s))
    ELSE <<Head(s)>> \o RemoveSpaces(Tail(s))

\* A HomogeniseUsername that leaves the spaces to the regular expression.
HomogeniseUsernameKeepingSpaces(username) ==
    LET lower == [i \in 1..Len(username) |-> ToLower(username[i])]
    IN [i \in 1..Len(lower) |->
            IF lower[i] \in ValidUidChars THEN lower[i] ELSE "_"]

HomogeniseUsername(username) ==
    LET lower == [i \in 1..Len(username) |-> ToLower(username[i])]
        nospace == RemoveSpaces(lower)
    IN [i \in 1..Len(nospace) |->
            IF nospace[i] \in ValidUidChars THEN nospace[i] ELSE "_"]

RECURSIVE TrimLeft(_)
TrimLeft(s) == IF s # <<>> /\ Head(s) = " " THEN TrimLeft(Tail(s)) ELSE s

RECURSIVE TrimRight(_)
TrimRight(s) ==
    IF s # <<>> /\ s[Len(s)] = " " THEN TrimRight(SubSeq(s, 1, Len(s) - 1)) ELSE s

\* strings.Trim(username, " ")
Trim(s) == TrimRight(TrimLeft(s))

\* PasteuriseUsername returns the cleaned name and the number of runes that
\* strings.Map visited, which is the rune count of the trimmed name.
PasteuriseUsername(username) ==
    LET t == Trim(username)
    IN [res |-> [i \in 1..Len(t) |->
                    IF t[i] \in NonGraphicChars THEN ReplacementChar ELSE t[i]],
        runeCount |-> Len(t)]

(***************************************************************************)
(* Transactions and GenerateTransactionID.                                 *)
(***************************************************************************)
\* The zero value Transaction{} that pads slices.
EmptyTransaction ==
    [ID |-> <<>>, Source |-> <<>>, SourceServer |-> <<>>, Target |-> <<>>,
     TargetServer |-> <<>>, Amount |-> 0, SentAmount |-> 0,
     ReceivedAmount |-> 0, Time |-> 0, Revertable |-> FALSE]

\* More than this many ids in one second make GenerateTransactionID sleep.
MaxIdsPerSecond == 1048576

\* fmt.Sprintf("T%X-%08X", t, id): the two numbers, which the format keeps apart.
FormatTransactionID(t, id) == <<"T", t, "-", id>>

\* The second GenerateTransactionID reads: after a one second sleep when too
\* many ids have been generated.
GenerateReadTime(prev, clock) ==
    IF Cardinality(prev) > MaxIdsPerSecond THEN clock + 1 ELSE clock

\* "if t > lastTime { previouslyGenerated = make(map[uint32]bool) }"
GenerateResetSeen(prev, last, t) == IF t > last THEN {} ELSE prev

\* The values the retry loop can leave in id: any draw not yet in the map.
GenerateDraws(seen) == (0..MaxRand) \ seen

\* lastTime after a call: no statement of GenerateTransactionID assigns it.
GenerateLastTime(last, t) == last

MakeTransaction(source, sourceServer, target, targetServer, amount, sentAmount, receivedAmount, id, time) ==
    [ID |-> id, Source |-> source, SourceServer |-> sourceServer,
     Target |-> target, TargetServer |-> targetServer, Amount |-> amount,
     SentAmount |-> sentAmount, ReceivedAmount |-> receivedAmount,
     Time |-> time, Revertable |-> FALSE]

(***************************************************************************)
(* Server accounts.                                                        *)
(***************************************************************************)
\* The history keeps this many transactions.
MaxHistory == 10

\* EncodedServer.Decode: a Server built from a stored record, modified = false.
Decode(e) ==
    [UID |-> HomogeniseUsername(e.Name), Name |-> e.Name, balance |-> e.Balance,
     targetBalance |-> e.TargetBalance, history |-> e.History,
     pendingTransactions |-> e.PendingTransactions, token |-> e.Token,
     WebhookURL |-> e.WebhookURL, modified |-> FALSE]

\* Server.Encode
Encode(s) ==
    [Version |-> 0, Name |-> s.Name, Balance |-> s.balance,
     TargetBalance |-> s.targetBalance, History |-> s.history,
     PendingTransactions |-> s.pendingTransactions, Token |-> s.token,
     WebhookURL |-> s.WebhookURL]

\* A ChangeBal that marks the account modified also when it refuses.
ChangeBalMarking(s, num) ==
    LET new_balance == s.balance + num
    IN IF new_balance < 0
       THEN [ok |-> FALSE, server |-> [s EXCEPT !.modified = TRUE]]
       ELSE [ok |-> TRUE,
             server |-> [s EXCEPT !.balance = new_balance, !.modified = TRUE]]

\* A ChangeBal that does not mark the account modified.
ChangeBalUnmarked(s, num) ==
    LET new_balance == s.balance + num
    IN IF new_balance < 0
       THEN [ok |-> FALSE, server |-> s]
       ELSE [ok |-> TRUE, server |-> [s EXCEPT !.balance = new_balance]]

\* A ChangeBal that never refuses.
ChangeBalUnchecked(s, num) ==
    [ok |-> TRUE,
     server |-> [s EXCEPT !.balance = s.balance + num, !.modified = TRUE]]

\* Server.ChangeBal: the account afterwards and the boolean it returns.
ChangeBal(s, num) ==
    LET new_balance == s.balance + num
    IN IF new_balance < 0
       THEN [ok |-> FALSE, server |-> s]
       ELSE [ok |-> TRUE,
             server |-> [s EXCEPT !.balance = new_balance, !.modified = TRUE]]

\* A prepend that never drops the oldest entry.
HistoryPrependUncapped(history, transaction) == <<transaction>> \o history

\* The history slice after "append if shorter than 10, copy(history[1:],
\* history), history[0] = transaction".
HistoryPrepend(history, transaction) ==
    LET grown == IF Len(history) < MaxHistory
                 THEN Append(history, EmptyTransaction) ELSE history
    IN [i \in 1..Len(grown) |-> IF i = 1 THEN transaction ELSE grown[i - 1]]

\* An AddToHistory that puts every transaction into the pending inbox.
AddToHistoryAlwaysPending(s, transaction) ==
    [s EXCEPT !.modified = TRUE,
              !.history = HistoryPrepend(s.history, transaction),
              !.pendingTransactions = Append(s.pendingTransactions, transaction)]

\* Server.AddToHistory (the webhook request it may start changes no state).
AddToHistory(s, transaction) ==
    LET h == [s EXCEPT !.modified = TRUE,
                       !.history = HistoryPrepend(s.history, transaction)]
    IN IF s.Name # transaction.TargetServer \/ transaction.Target = <<>>
       THEN h
       ELSE [h EXCEPT !.pendingTransactions =
                          Append(s.pendingTransactions, transaction)]

\* The default target balance of a new server, in whole units.
DefaultTargetBalance == 500000

\* NewServer: an empty account holding a fresh token; SetModified marks it.
NewServer(name, token) ==
    [Decode([Version |-> 0, Name |-> name, Balance |-> 0,
             TargetBalance |-> DefaultTargetBalance * 100, History |-> <<>>,
             PendingTransactions |-> <<>>, Token |-> token,
             WebhookURL |-> <<>>]) EXCEPT !.modified = TRUE]

\* The largest target balance, in hundredths.  The program's maximum is
\* 5e10 hundredths (500,000,000.00); this bound of the model stands for it,
\* scaled down to a number that 32-bit arithmetic can compare.
MaxTargetBalance == 2000000000

\* A SetTargetBalance that has no upper limit.
SetTargetBalanceNoLimit(s, targetBalance) ==
    IF targetBalance < 0
    THEN [ok |-> FALSE, server |-> s]
    ELSE [ok |-> TRUE,
          server |-> [s EXCEPT !.modified = TRUE,
                               !.targetBalance = targetBalance]]

\* Server.SetTargetBalance
SetTargetBalance(s, targetBalance) ==
    IF targetBalance < 0 \/ targetBalance > MaxTargetBalance
    THEN [ok |-> FALSE, server |-> s]
    ELSE [ok |-> TRUE,
          server |-> [s EXCEPT !.modified = TRUE,
                               !.targetBalance = targetBalance]]

\* CurrencyFromFloat of a quotient n/d that big.Float computed with a 64-bit
\* mantissa: the truncated quotient, or, when n/d is a whole number of
\* hundredths, possibly the one next to it towards zero (the rounded float
\* may lie just below the exact value).
TruncSet(n, d) ==
    LET q == Trunc(n, d)
    IN IF (Abs(n) % Abs(d)) = 0 /\ q # 0 THEN {q, q - Sign(q)} ELSE {q}

\* A GetExchangeRate that takes a target balance of 0 for one of 0.01
\* and converts with it.
GetExchangeRateNeverFixed(s, amount, toLurkcoin) ==
    IF amount = 0 THEN {amount}
    ELSE LET bal == IF s.balance > 0 THEN s.balance ELSE 1
             T == IF s.targetBalance = 0 THEN 1 ELSE s.targetBalance
             adjs == IF toLurkcoin
                     THEN {bal - d : d \in TruncSet(amount * bal, T)}
                     ELSE {bal + amount}
             Result(adj) ==
                 LET num == T * (adj + bal)
                     den == 2 * bal * adj
                 IN IF adj = 0 THEN {0}
                    ELSE IF toLurkcoin
                    THEN (IF num = 0 THEN {0} ELSE TruncSet(amount * den, num))
                    ELSE TruncSet(amount * num, den)
         IN UNION {Result(adj) : adj \in adjs}

\* Server.GetExchangeRate: the Currency values it can return.  With a, bal, T
\* and adj in hundredths, exchange is T * (adj + bal) / (2 * bal * adj).
GetExchangeRate(s, amount, toLurkcoin) ==
    IF amount = 0 \/ s.targetBalance = 0 THEN {amount}
    ELSE LET bal == IF s.balance > 0 THEN s.balance ELSE 1
             T == s.targetBalance
             adjs == IF toLurkcoin
                     THEN {bal - d : d \in TruncSet(amount * bal, T)}
                     ELSE {bal + amount}
             Result(adj) ==
                 LET num == T * (adj + bal)
                     den == 2 * bal * adj
                 IN IF adj = 0 THEN {0}
                    ELSE IF toLurkcoin
                    THEN (IF num = 0 THEN {0} ELSE TruncSet(amount * den, num))
                    ELSE TruncSet(amount * num, den)
         IN UNION {Result(adj) : adj \in adjs}

\* A search that returns the first pending transaction when none has the id.
PendingIndexOrFirst(s, id) ==
    LET found == {i \in 1..Len(s.pendingTransactions) :
                      s.pendingTransactions[i].ID = id}
    IN IF found = {} THEN (IF Len(s.pendingTransactions) = 0 THEN 0 ELSE 1)
       ELSE CHOOSE i \in found : \A k \in found : i <= k

\* Server.removeAndReturnPendingTransaction: the index of the first pending
\* transaction with this id, 0 when there is none.
PendingIndex(s, id) ==
    LET found == {i \in 1..Len(s.pendingTransactions) :
                      s.pendingTransactions[i].ID = id}
    IN IF found = {} THEN 0
       ELSE CHOOSE i \in found : \A k \in found : i <= k

\* The account after removeAndReturnPendingTransaction(id).
RemovePendingTransaction(s, id) ==
    LET i == PendingIndex(s, id)
        p == s.pendingTransactions
    IN IF i = 0 THEN s
       ELSE [s EXCEPT !.modified = TRUE,
                      !.pendingTransactions =
                          SubSeq(p, 1, i - 1) \o SubSeq(p, i + 1, Len(p))]

\* A rejection that starts the goroutine and leaves the transaction in the
\* inbox.
RejectKeepingTransaction(s, id) ==
    LET i == PendingIndex(s, id)
        found == i # 0
    IN [server |-> [s EXCEPT !.modified = TRUE],
        started |-> found /\ s.pendingTransactions[i].Revertable,
        transaction |-> IF found THEN s.pendingTransactions[i]
                        ELSE EmptyTransaction]

\* Server.RejectPendingTransaction: the account afterwards, whether the
\* goroutine that pays back was started, and the transaction it was given.
RejectPendingTransaction(s, id) ==
    LET i == PendingIndex(s, id)
        found == i # 0
    IN [server |-> RemovePendingTransaction(s, id),
        started |-> found /\ s.pendingTransactions[i].Revertable,
        transaction |-> IF found THEN s.pendingTransactions[i]
                        ELSE EmptyTransaction]

(***************************************************************************)
(* Server.Pay, in two halves: up to and including the debit of the source, *)
(* and from the conversion for the target to the end.  cache maps the key  *)
(* of each *Server to the Server; sk and tk are the keys of sourceServer   *)
(* and targetServer, equal when both are the same object.                  *)
(***************************************************************************)
\* The transaction limit, in hundredths.  The program's limit is 1e11 whole
\* units; this bound of the model stands for it, scaled down to amounts
\* that can be enumerated.
transactionLimit == 8

\* The longest user name Pay accepts, in runes.
MaxUsernameLength == 48

\* The amount being sent in lurkcoins.
PayBaseAmounts(s, sentAmount, localCurrency) ==
    IF localCurrency THEN GetExchangeRate(s, sentAmount, TRUE) ELSE {sentAmount}

\* A Pay that looks at the target user name before the source user name.
PayDebitWithTargetFirst(cache, sk, source, target, sentAmount, amount) ==
    LET ps == PasteuriseUsername(source)
        pt == PasteuriseUsername(target)
        debit == ChangeBal(cache[sk], -amount)
        Out(err, c) == [err |-> err, cache |-> c, amount |-> amount,
                        source |-> ps.res, target |-> pt.res]
    IN IF pt.runeCount > MaxUsernameLength
       THEN Out("ERR_USERNAMETOOLONG", cache)
       ELSE IF ps.runeCount > MaxUsernameLength
       THEN Out("ERR_SOURCEUSERNAMETOOLONG", cache)
       ELSE IF ~(sentAmount > 0) \/ ~(amount > 0)
       THEN Out("ERR_INVALIDAMOUNT", cache)
       ELSE IF sentAmount > transactionLimit \/ amount > transactionLimit
       THEN Out("ERR_TRANSACTIONLIMIT", cache)
       ELSE IF ~debit.ok
       THEN Out("ERR_CANNOTAFFORD", [cache EXCEPT ![sk] = debit.server])
       ELSE Out("", [cache EXCEPT ![sk] = debit.server])

\* Pay up to "success := sourceServer.ChangeBal(amount.Neg())" with this
\* base amount, under this transaction limit.
PayDebitUnder(limit, cache, sk, source, target, sentAmount, amount) ==
    LET ps == PasteuriseUsername(source)
        pt == PasteuriseUsername(target)
        debit == ChangeBal(cache[sk], -amount)
        Out(err, c) == [err |-> err, cache |-> c, amount |-> amount,
                        source |-> ps.res, target |-> pt.res]
    IN IF ps.runeCount > MaxUsernameLength
       THEN Out("ERR_SOURCEUSERNAMETOOLONG", cache)
       ELSE IF pt.runeCount > MaxUsernameLength
       THEN Out("ERR_USERNAMETOOLONG", cache)
       ELSE IF ~(sentAmount > 0) \/ ~(amount > 0)
       THEN Out("ERR_INVALIDAMOUNT", cache)
       ELSE IF sentAmount > limit \/ amount > limit
       THEN Out("ERR_TRANSACTIONLIMIT", cache)
       ELSE IF ~debit.ok
       THEN Out("ERR_CANNOTAFFORD", [cache EXCEPT ![sk] = debit.server])
       ELSE Out("", [cache EXCEPT ![sk] = debit.server])

\* Pay up to "success := sourceServer.ChangeBal(amount.Neg())" with this
\* base amount.
PayDebitWith(cache, sk, source, target, sentAmount, amount) ==
    PayDebitUnder(transactionLimit, cache, sk, source, target, sentAmount, amount)

\* The first half of Pay: every outcome it can have.
PayDebit(cache, sk, source, target, sentAmount, localCurrency) ==
    {PayDebitWith(cache, sk, source, target, sentAmount, amount) :
        amount \in PayBaseAmounts(cache[sk], sentAmount, localCurrency)}

\* A credit of the received amount instead of the base amount.
CreditedReceivedAmount(amount, receivedAmount) == receivedAmount

\* What "success = targetServer.ChangeBal(amount)" adds to the target.
CreditedAmount(amount, receivedAmount) == amount

\* The checks on receivedAmount after the debit, under this transaction
\* limit: the error Pay returns there, "" when it goes on.
PayReceiveErrorUnder(limit, receivedAmount) ==
    IF ~(receivedAmount > 0) THEN "ERR_CANNOTPAYNOTHING"
    ELSE IF receivedAmount > limit THEN "ERR_TRANSACTIONLIMIT"
    ELSE ""

PayReceiveError(receivedAmount) ==
    PayReceiveErrorUnder(transactionLimit, receivedAmount)

\* A Pay that adds the transaction to the history of the source without
\* asking whether the source is the target.
PayCreditBothHistories(cache, sk, tk, source, target, amount, sentAmount, receivedAmount, revertable, ret) ==
    LET credit == ChangeBal(cache[tk], CreditedAmount(amount, receivedAmount))
        credited == [cache EXCEPT ![tk] = credit.server]
        transaction ==
            [MakeTransaction(source, cache[sk].Name, target, cache[tk].Name,
                             amount, sentAmount, receivedAmount, ret[1], ret[2])
                EXCEPT !.Revertable = revertable]
        withSource == [credited EXCEPT
                          ![sk] = AddToHistory(credited[sk], transaction)]
    IN IF ~credit.ok
       THEN [err |-> "ERR_INTERNALERROR",
             cache |-> [cache EXCEPT ![sk] = ChangeBal(cache[sk], amount).server],
             transaction |-> EmptyTransaction]
       ELSE [err |-> "",
             cache |-> [withSource EXCEPT
                           ![tk] = AddToHistory(withSource[tk], transaction)],
             transaction |-> transaction]

\* Pay from "success = targetServer.ChangeBal(amount)" on, for a
\* receivedAmount that passed the checks; ret is what
\* GenerateTransactionID returns to MakeTransaction.
PayCredit(cache, sk, tk, source, target, amount, sentAmount, receivedAmount, revertable, ret) ==
    LET credit == ChangeBal(cache[tk], CreditedAmount(amount, receivedAmount))
        credited == [cache EXCEPT ![tk] = credit.server]
        transaction ==
            [MakeTransaction(source, cache[sk].Name, target, cache[tk].Name,
                             amount, sentAmount, receivedAmount, ret[1], ret[2])
                EXCEPT !.Revertable = revertable]
        withSource == IF sk # tk
                      THEN [credited EXCEPT
                               ![sk] = AddToHistory(credited[sk], transaction)]
                      ELSE credited
    IN IF ~credit.ok
       THEN [err |-> "ERR_INTERNALERROR",
             cache |-> [cache EXCEPT ![sk] = ChangeBal(cache[sk], amount).server],
             transaction |-> EmptyTransaction]
       ELSE [err |-> "",
             cache |-> [withSource EXCEPT
                           ![tk] = AddToHistory(withSource[tk], transaction)],
             transaction |-> transaction]

(***************************************************************************)
(* The storage backend (plaintextDatabase) and DatabaseTransaction.        *)
(* A stored account is an EncodedServer record; the store maps uids to     *)
(* them.  Inside one DatabaseTransaction a *Server is identified by the    *)
(* key of the cache entry that holds it.                                   *)
(***************************************************************************)
Min(S) == CHOOSE x \in S : \A y \in S : x <= y

\* The first half of genericDbLock.Lock: the homogenised names.
LockIds(names) == [i \in 1..Len(names) |-> HomogeniseUsername(names[i])]

\* The loop of plaintextDatabase.GetServers over the locked ids: every
\* account decoded, or the first id that is missing.
ReadServers(store, ids) ==
    LET missing == {i \in 1..Len(ids) : ids[i] \notin DOMAIN store}
    IN IF missing = {}
       THEN [ok |-> TRUE, bad |-> <<>>,
             servers |-> [i \in 1..Len(ids) |-> Decode(store[ids[i]])]]
       ELSE [ok |-> FALSE, bad |-> ids[Min(missing)], servers |-> <<>>]

\* The deduplication loop of DatabaseTransaction.GetServers.  names and
\* rawNames are the same slice, so "names[i] = name" also rewrites rawNames:
\* arr is that shared array, j the index range is at, i the write index.
RECURSIVE DedupLoop(_, _, _, _, _)
DedupLoop(arr, j, i, known, deduplicated) ==
    IF j > Len(arr)
    THEN [names |-> SubSeq(arr, 1, i), rawNames |-> arr,
          deduplicated |-> deduplicated]
    ELSE LET name == HomogeniseUsername(arr[j])
         IN IF name \in known
            THEN DedupLoop(arr, j + 1, i, known, TRUE)
            ELSE DedupLoop([arr EXCEPT ![i + 1] = name], j + 1, i + 1,
                           known \cup {name}, deduplicated)

\* A GetServers that passes the names on as they are.
DeduplicateNothing(names) ==
    [names |-> names, rawNames |-> names, deduplicated |-> FALSE]

\* "Deduplicate the list": what is passed to the backend, what rawNames
\* holds afterwards, and whether a duplicate was dropped.
Deduplicate(names) ==
    IF Len(names) > 1
    THEN DedupLoop(names, 1, 0, {}, FALSE)
    ELSE [names |-> names, rawNames |-> names, deduplicated |-> FALSE]

\* A cache lookup that homogenises the names it is asked for.
GetFromCacheHomogenised(cache, names) ==
    IF \A i \in 1..Len(names) : HomogeniseUsername(names[i]) \in DOMAIN cache
    THEN [servers |-> LockIds(names), ok |-> TRUE, bad |-> <<>>]
    ELSE [servers |-> <<>>, ok |-> FALSE, bad |-> <<>>]

\* DatabaseTransaction.getFromCache: the cached servers under these names,
\* looked up as given.
GetFromCache(cache, names) ==
    IF \A i \in 1..Len(names) : names[i] \in DOMAIN cache
    THEN [servers |-> names, ok |-> TRUE, bad |-> <<>>]
    ELSE [servers |-> <<>>, ok |-> FALSE, bad |-> <<>>]

\* "self.servers[server.UID] = server" for every server the backend returned.
FillCache(servers) ==
    [u \in {servers[i].UID : i \in 1..Len(servers)} |->
        LET last == CHOOSE i \in 1..Len(servers) :
                       /\ servers[i].UID = u
                       /\ \A k \in (i + 1)..Len(servers) : servers[k].UID # u
        IN servers[last]]

\* The end of the first DatabaseTransaction.GetServers call, after the
\* backend returned back: the cache and the (servers, ok, badServer) result.
\* A returned server is named by its cache key.
FinishGetServers(dd, back) ==
    LET cache == IF back.ok THEN FillCache(back.servers) ELSE <<>>
    IN IF dd.deduplicated /\ back.ok
       THEN [cache |-> cache] @@ GetFromCache(cache, dd.rawNames)
       ELSE [cache |-> cache, ok |-> back.ok, bad |-> back.bad,
             servers |-> [i \in 1..Len(back.servers) |-> back.servers[i].UID]]

(***************************************************************************)
(* Idle values: what a specification leaves the variables of the other     *)
(* harnesses at.                                                           *)
(***************************************************************************)
HistIdle == hServer = NewServer(<<"a">>, "t0") /\ hAdded = <<>>

\* The accounts of the store at start: "a" with target balance targetA and
\* "B", whose exchange rate is fixed (target balance 0).
InitialStore(targetA) ==
    (<<"a">> :> [Version |-> 0, Name |-> <<"a">>, Balance |-> 3,
                 TargetBalance |-> targetA, History |-> <<>>,
                 PendingTransactions |-> <<>>, Token |-> "ta",
                 WebhookURL |-> <<>>])
    @@ (<<"b">> :> [Version |-> 0, Name |-> <<"B">>, Balance |-> 5,
                    TargetBalance |-> 0, History |-> <<>>,
                    PendingTransactions |-> <<>>, Token |-> "tb",
                    WebhookURL |-> <<>>])

NoResult == [cache |-> <<>>, ok |-> FALSE, bad |-> <<>>, servers |-> <<>>]

GetIdle ==
    gNames = <<>> /\ gDone = FALSE /\ gOut = NoResult /\ gLocks = {}

\* The goroutines that use the lock manager.
Callers == {1, 2, 3}

\* The sync.Mutex objects that can be alive at once: one for every map
\* entry and one for every waiter's cachedServerLock.
Mutexes == 1..(2 + Cardinality(Callers))

\* newGenericDbLock(): no entry, nobody inside.
LockIdle ==
    /\ lkSup = 0
    /\ lkMap = <<>>
    /\ lkLocked = {}
    /\ lkOwner = [m \in Mutexes |-> 0]
    /\ lkPc = [c \in Callers |-> "idle"]
    /\ lkIds = [c \in Callers |-> <<>>]
    /\ lkCached = [c \in Callers |-> 0]
    /\ lkRound = [c \in Callers |-> 0]
    /\ lkPanic = FALSE

IdIdle == now = 0 /\ lastTime = -1 /\ previouslyGenerated = {} /\ issued = <<>>

\* What Pay has returned: nothing yet.
NoPayResult ==
    [err |-> "", amount |-> 0, source |-> <<>>, target |-> <<>>,
     transaction |-> EmptyTransaction]

PayIdle ==
    /\ pCache = <<>>
    /\ pArgs = <<>>
    /\ pPc = "idle"
    /\ pOut = NoPayResult
    /\ pBefore = <<>>

\* The goroutines of the ledger: the HTTP handlers and, for each handler,
\* the goroutine that its RejectPendingTransaction starts.
Handlers == {1, 2}

Reverter(h) == h + Cardinality(Handlers)

Goroutines == Handlers \cup {Reverter(h) : h \in Handlers}

\* A DatabaseTransaction from BeginDbTransaction: servers is nil.
NilTransaction == [isNil |-> TRUE, servers |-> <<>>, read |-> <<>>]

\* The local variables of a goroutine that runs nothing.
NoLocals ==
    [serverNames |-> <<>>, names |-> <<>>, deduplicated |-> FALSE,
     attempt |-> 0, servers |-> <<>>, save |-> FALSE, next |-> "idle",
     amount |-> 0, source |-> <<>>, target |-> <<>>, err |-> ""]

NoRequest == [kind |-> "none"]

\* The store the ledger starts with.
LedgerStore == InitialStore(8)

LedgerIdle ==
    /\ db = LedgerStore
    /\ dbWriter = 0
    /\ dblock = <<>>
    /\ pc = [g \in Goroutines |-> "idle"]
    /\ req = [g \in Goroutines |-> NoRequest]
    /\ tr = [g \in Goroutines |-> NilTransaction]
    /\ loc = [g \in Goroutines |-> NoLocals]
    /\ reqCount = 0

(***************************************************************************)
(* SpecHist: AddToHistory called again and again on one new account.       *)
(***************************************************************************)
\* The n-th transaction handed to AddToHistory: addressed to this account or
\* to another one.
HistTransaction(n, targetServer) ==
    MakeTransaction(<<"u">>, <<"B">>, <<"v">>, targetServer, 1, 1, 1,
                    FormatTransactionID(0, n), 0)

HistAdd ==
    /\ Len(hAdded) < MaxAdds
    /\ \E targetServer \in {<<"a">>, <<"B">>} :
          LET t == HistTransaction(Len(hAdded), targetServer)
          IN /\ hServer' = AddToHistory(hServer, t)
             /\ hAdded' = Append(hAdded, t)
    /\ UNCHANGED <<idVars, getVars, lockVars, payVars, ledgerVars>>

HistInit == HistIdle /\ IdIdle /\ GetIdle /\ LockIdle /\ PayIdle /\ LedgerIdle

HistNext == HistAdd

SpecHist == HistInit /\ [][HistNext]_vars

(***************************************************************************)
(* SpecId: GenerateTransactionID called while the clock advances.          *)
(***************************************************************************)
\* One call of GenerateTransactionID, all of it under the package mutex.
\* It returns <<id string, t>>.
Generate(ret) ==
    LET t == GenerateReadTime(previouslyGenerated, now)
        seen == GenerateResetSeen(previouslyGenerated, lastTime, t)
    IN \E id \in GenerateDraws(seen) :
          /\ ret = <<FormatTransactionID(t, id), t>>
          /\ previouslyGenerated' = seen \cup {id}
          /\ lastTime' = GenerateLastTime(lastTime, t)
          /\ now' = t

\* time.Now() moves on.
Tick ==
    /\ now < MaxTime
    /\ now' = now + 1
    /\ UNCHANGED <<lastTime, previouslyGenerated, issued>>
    /\ UNCHANGED <<histVars, getVars, lockVars, payVars, ledgerVars>>

IdGenerate ==
    /\ Len(issued) < MaxIssued
    /\ now <= MaxTime
    /\ \E ret \in {<<FormatTransactionID(t, id), t>> :
                        t \in 0..(MaxTime + 1), id \in 0..MaxRand} :
          /\ Generate(ret)
          /\ issued' = Append(issued, ret)
    /\ UNCHANGED <<histVars, getVars, lockVars, payVars, ledgerVars>>

IdInit == IdIdle /\ HistIdle /\ GetIdle /\ LockIdle /\ PayIdle /\ LedgerIdle

IdNext == Tick \/ IdGenerate

SpecId == IdInit /\ [][IdNext]_vars

(***************************************************************************)
(* SpecPay: one call of Server.Pay on accounts with any small balances and *)
(* target balances, between two accounts or from an account to itself.     *)
(***************************************************************************)
\* What GenerateTransactionID can return.
IdReturns ==
    {<<FormatTransactionID(t, id), t>> : t \in 0..(MaxTime + 1), id \in 0..MaxRand}

PayAccount(name, balance, targetBalance) ==
    Decode([Version |-> 0, Name |-> name, Balance |-> balance,
            TargetBalance |-> targetBalance, History |-> <<>>,
            PendingTransactions |-> <<>>, Token |-> "t", WebhookURL |-> <<>>])

\* Target balances: a fixed exchange rate, and two floating ones.
PayTargetBalances == {0, 1, 8}

\* Sent amounts: negative, zero, allowed, and above the transaction limit.
PayAmounts == (-1)..(transactionLimit + 1)

\* User names: short ones and one of 49 runes.
LongUsername == Rep("x", MaxUsernameLength + 1)

\* The accounts Pay is called on: two accounts, or one that is both.
PayCaches ==
    {(<<"a">> :> PayAccount(<<"a">>, sb, sT)) @@ (<<"b">> :> PayAccount(<<"B">>, tb, tT)) :
        sb \in 0..MaxBalance, sT \in PayTargetBalances,
        tb \in 0..MaxBalance, tT \in PayTargetBalances}
    \cup {(<<"a">> :> PayAccount(<<"a">>, sb, sT)) :
              sb \in 0..MaxBalance, sT \in PayTargetBalances}

PayInit ==
    /\ pCache \in PayCaches
    /\ pArgs \in [sk : {<<"a">>}, tk : DOMAIN pCache,
                  source : {<<"u">>, LongUsername},
                  target : {<<"v">>, LongUsername},
                  sentAmount : PayAmounts, localCurrency : BOOLEAN,
                  revertable : {TRUE}]
    /\ pPc = "call"
    /\ pOut = NoPayResult
    /\ pBefore = pCache
    /\ HistIdle /\ IdIdle /\ GetIdle /\ LockIdle /\ LedgerIdle

PayFrame == UNCHANGED <<histVars, getVars, lockVars, ledgerVars>>

\* Pay runs up to the debit of the source and returns an error or goes on.
PayCallDebit ==
    /\ pPc = "call"
    /\ \E out \in PayDebit(pCache, pArgs.sk, pArgs.source, pArgs.target,
                            pArgs.sentAmount, pArgs.localCurrency) :
          /\ pCache' = out.cache
          /\ pOut' = [err |-> out.err, amount |-> out.amount,
                      source |-> out.source, target |-> out.target,
                      transaction |-> EmptyTransaction]
          /\ pPc' = IF out.err = "" THEN "debited" ELSE "done"
    /\ UNCHANGED <<pArgs, pBefore, idVars>>
    /\ PayFrame

\* The received amount is refused: Pay returns the error.
PayCallRefuse ==
    /\ pPc = "debited"
    /\ \E receivedAmount \in GetExchangeRate(pCache[pArgs.tk], pOut.amount, FALSE) :
          /\ PayReceiveError(receivedAmount) # ""
          /\ pOut' = [pOut EXCEPT !.err = PayReceiveError(receivedAmount)]
    /\ pPc' = "done"
    /\ UNCHANGED <<pCache, pArgs, pBefore, idVars>>
    /\ PayFrame

\* The received amount is accepted: the target is credited and the
\* transaction recorded.
PayCallCredit ==
    /\ pPc = "debited"
    /\ \E receivedAmount \in GetExchangeRate(pCache[pArgs.tk], pOut.amount, FALSE) :
          /\ PayReceiveError(receivedAmount) = ""
          /\ \E ret \in IdReturns :
                /\ Generate(ret)
                /\ LET out == PayCredit(pCache, pArgs.sk, pArgs.tk, pOut.source,
                                        pOut.target, pOut.amount, pArgs.sentAmount,
                                        receivedAmount, pArgs.revertable, ret)
                   IN /\ pCache' = out.cache
                      /\ pOut' = [pOut EXCEPT !.err = out.err,
                                              !.transaction = out.transaction]
    /\ pPc' = "done"
    /\ UNCHANGED <<pArgs, pBefore, issued>>
    /\ PayFrame

PayNext == PayCallDebit \/ PayCallRefuse \/ PayCallCredit

SpecPay == PayInit /\ [][PayNext]_vars

(***************************************************************************)
(* SpecGet: one first GetServers call of a fresh DatabaseTransaction, for  *)
(* every short list of names of existing accounts, with no other caller.   *)
(***************************************************************************)
\* Ways to write the names of the two stored accounts.
GetNameSet == {<<"a">>, <<"A">>, <<"a", " ">>, <<"B">>, <<"b">>}

RECURSIVE SeqsUpTo(_, _)
SeqsUpTo(S, n) ==
    IF n = 0 THEN {<<>>}
    ELSE LET shorter == SeqsUpTo(S, n - 1)
         IN shorter \cup {Append(q, x) : q \in shorter, x \in S}

GetStore == InitialStore(1)

\* DatabaseTransaction.GetServers on a new transaction: deduplicate, let
\* the backend lock and read, fill the cache, answer.  The backend unlocks
\* the ids itself when an account is missing.
GetCall ==
    /\ ~gDone
    /\ LET dd == Deduplicate(gNames)
           ids == LockIds(dd.names)
           back == ReadServers(GetStore, ids)
       IN /\ gOut' = FinishGetServers(dd, back)
          /\ gLocks' = IF back.ok THEN Range(ids) ELSE {}
    /\ gDone' = TRUE
    /\ UNCHANGED <<gNames, histVars, idVars, lockVars, payVars, ledgerVars>>

GetInit ==
    /\ gNames \in SeqsUpTo(GetNameSet, MaxNames) \ {<<>>}
    /\ gDone = FALSE /\ gOut = NoResult /\ gLocks = {}
    /\ HistIdle /\ IdIdle /\ LockIdle /\ PayIdle /\ LedgerIdle

GetNext == GetCall

SpecGet == GetInit /\ [][GetNext]_vars

(***************************************************************************)
(* SpecLock: genericDbLock.Lock and UnlockIDs, statement by statement,     *)
(* called by goroutines that lock a list of names, use the accounts and    *)
(* unlock what they locked.  lkSup is the holder of genericDbLock.lock,    *)
(* lkMap is genericDbLock.locks, lkLocked the mutexes that are locked.     *)
(***************************************************************************)
\* The name lists the callers ask for.
LockRequests == {<<<<"a">>>>, <<<<"B">>>>, <<<<"a">>, <<"B">>>>, <<<<"B">>, <<"a">>>>}

\* The mutex objects something still points to.
MutexesInUse == Range2(lkMap) \cup {lkCached[c] : c \in Callers}

\* A scan that looks at the first requested id only.
FirstLockedHeadOnly(map, ids) ==
    IF Len(ids) > 0 /\ ids[1] \in DOMAIN map THEN 1 ELSE 0

\* "for _, name := range ids { cachedServerLock, exists := self.locks[name]":
\* the index of the first requested id that has an entry, 0 when none has.
FirstLocked(map, ids) ==
    LET found == {i \in 1..Len(ids) : ids[i] \in DOMAIN map}
    IN IF found = {} THEN 0 ELSE Min(found)

\* A waiter that keeps genericDbLock.lock while it waits.
SupervisorKeptWhileWaiting(c) == c

\* Who holds genericDbLock.lock while a caller waits on cachedServerLock:
\* Lock calls self.lock.Unlock() first.
SupervisorWhileWaiting(c) == 0

\* "for _, name := range ids { var lock sync.Mutex; lock.Lock();
\* self.locks[name] = &lock }" from index i on.  st holds the map, the
\* locked mutexes and their creators.
RECURSIVE CreateLocks(_, _, _, _)
CreateLocks(st, ids, i, c) ==
    IF i > Len(ids) THEN st
    ELSE LET without == [u \in DOMAIN st.map \ {ids[i]} |-> st.map[u]]
             inUse == Range2(without) \cup {lkCached[d] : d \in Callers}
             m == Min(Mutexes \ inUse)
         IN CreateLocks([map |-> (ids[i] :> m) @@ without,
                         locked |-> (st.locked \cap inUse) \cup {m},
                         owner |-> [st.owner EXCEPT ![m] = c]],
                        ids, i + 1, c)

\* "self.locks[id].Unlock(); delete(self.locks, id)" from index i on.  An
\* id without an entry makes the first of the two a nil dereference.
RECURSIVE DeleteLocks(_, _, _)
DeleteLocks(st, ids, i) ==
    IF i > Len(ids) \/ st.panic THEN st
    ELSE IF ids[i] \notin DOMAIN st.map THEN [st EXCEPT !.panic = TRUE]
    ELSE LET m == st.map[ids[i]]
         IN DeleteLocks([map |-> [u \in DOMAIN st.map \ {ids[i]} |-> st.map[u]],
                         locked |-> st.locked \ {m},
                         owner |-> [st.owner EXCEPT ![m] = 0],
                         panic |-> FALSE],
                        ids, i + 1)

\* The variables of the other harnesses.
LockFrame == UNCHANGED <<histVars, idVars, getVars, payVars, ledgerVars>>

\* A goroutine calls Lock(names): the ids are computed.
LockBegin(c) ==
    /\ lkPc[c] = "idle"
    /\ lkRound[c] < MaxRounds
    /\ \E names \in LockRequests : lkIds' = [lkIds EXCEPT ![c] = LockIds(names)]
    /\ lkPc' = [lkPc EXCEPT ![c] = "enter"]
    /\ lkRound' = [lkRound EXCEPT ![c] = @ + 1]
    /\ UNCHANGED <<lkSup, lkMap, lkLocked, lkOwner, lkCached, lkPanic>>
    /\ LockFrame

\* self.lock.Lock(), on entry and again after waiting.
LockSupervisor(c) ==
    /\ lkPc[c] \in {"enter", "relock"}
    /\ lkSup = 0
    /\ lkSup' = c
    /\ lkPc' = [lkPc EXCEPT ![c] = "scan"]
    /\ UNCHANGED <<lkMap, lkLocked, lkOwner, lkIds, lkCached, lkRound, lkPanic>>
    /\ LockFrame

\* One pass of "for !ok" with the supervisor lock held, which finds an
\* entry: remember its mutex and go to wait for it.
LockScanBusy(c) ==
    /\ lkPc[c] = "scan"
    /\ FirstLocked(lkMap, lkIds[c]) # 0
    /\ lkCached' = [lkCached EXCEPT
                       ![c] = lkMap[lkIds[c][FirstLocked(lkMap, lkIds[c])]]]
    /\ lkSup' = SupervisorWhileWaiting(c)
    /\ lkPc' = [lkPc EXCEPT ![c] = "wait"]
    /\ UNCHANGED <<lkMap, lkLocked, lkOwner, lkIds, lkRound, lkPanic>>
    /\ LockFrame

\* The pass that finds no entry: create every lock and return, releasing
\* the supervisor lock.
LockScanFree(c) ==
    /\ lkPc[c] = "scan"
    /\ FirstLocked(lkMap, lkIds[c]) = 0
    /\ LET st == CreateLocks([map |-> lkMap, locked |-> lkLocked,
                              owner |-> lkOwner], lkIds[c], 1, c)
       IN /\ lkMap' = st.map
          /\ lkLocked' = st.locked
          /\ lkOwner' = st.owner
    /\ lkSup' = 0
    /\ lkPc' = [lkPc EXCEPT ![c] = "held"]
    /\ UNCHANGED <<lkIds, lkCached, lkRound, lkPanic>>
    /\ LockFrame

\* cachedServerLock.Lock()
LockWait(c) ==
    /\ lkPc[c] = "wait"
    /\ lkCached[c] \notin lkLocked
    /\ lkLocked' = lkLocked \cup {lkCached[c]}
    /\ lkPc' = [lkPc EXCEPT ![c] = "wake"]
    /\ UNCHANGED <<lkSup, lkMap, lkOwner, lkIds, lkCached, lkRound, lkPanic>>
    /\ LockFrame

\* cachedServerLock.Unlock()
LockWake(c) ==
    /\ lkPc[c] = "wake"
    /\ lkLocked' = lkLocked \ {lkCached[c]}
    /\ lkCached' = [lkCached EXCEPT ![c] = 0]
    /\ lkPc' = [lkPc EXCEPT ![c] = "relock"]
    /\ UNCHANGED <<lkSup, lkMap, lkOwner, lkIds, lkRound, lkPanic>>
    /\ LockFrame

\* The caller is done with the accounts and calls UnlockIDs(ids).
LockRelease(c) ==
    /\ lkPc[c] = "held"
    /\ lkPc' = [lkPc EXCEPT ![c] = "unlock"]
    /\ UNCHANGED <<lkSup, lkMap, lkLocked, lkOwner, lkIds, lkCached, lkRound,
                   lkPanic>>
    /\ LockFrame

\* genericDbLock.UnlockIDs, all of it under the supervisor lock.
UnlockIDs(c) ==
    /\ lkPc[c] = "unlock"
    /\ lkSup = 0
    /\ LET st == DeleteLocks([map |-> lkMap, locked |-> lkLocked,
                              owner |-> lkOwner, panic |-> FALSE], lkIds[c], 1)
       IN /\ lkMap' = st.map
          /\ lkLocked' = st.locked
          /\ lkOwner' = st.owner
          /\ lkPanic' = (lkPanic \/ st.panic)
    /\ lkIds' = [lkIds EXCEPT ![c] = <<>>]
    /\ lkPc' = [lkPc EXCEPT ![c] = "idle"]
    /\ UNCHANGED <<lkSup, lkCached, lkRound>>
    /\ LockFrame

LockStep(c) ==
    \/ LockSupervisor(c)
    \/ LockScanBusy(c)
    \/ LockScanFree(c)
    \/ LockWait(c)
    \/ LockWake(c)
    \/ LockRelease(c)
    \/ UnlockIDs(c)

LockInit == LockIdle /\ HistIdle /\ IdIdle /\ GetIdle /\ PayIdle /\ LedgerIdle

LockNext == \E c \in Callers : LockBegin(c) \/ LockStep(c)

SpecLock == LockInit /\ [][LockNext]_vars

\* Two goroutines only: the third one makes no call.
LockInitTwo ==
    /\ LockIdle!1 /\ LockIdle!2 /\ LockIdle!3 /\ LockIdle!4 /\ LockIdle!5
    /\ LockIdle!6 /\ LockIdle!7 /\ LockIdle!9
    /\ lkRound = [c \in Callers |-> IF c = 3 THEN MaxRounds ELSE 0]
    /\ HistIdle /\ IdIdle /\ GetIdle /\ PayIdle /\ LedgerIdle

\* sync.Mutex hands a lock to every goroutine that keeps asking for it, and
\* a goroutine that holds accounts goes on to release them.
FairSpecLock ==
    LockInitTwo /\ [][LockNext]_vars /\ \A c \in Callers : SF_vars(LockStep(c))

(***************************************************************************)
(* Spec: the ledger behind the v3 API.  HTTP handlers run pay,             *)
(* acknowledge_transactions and reject_transactions requests, each inside  *)
(* its own DatabaseTransaction on the plaintext backend, and every         *)
(* rejected revertable transaction starts a goroutine that pays it back.   *)
(* genericDbLock.Lock is one step here: it returns when none of the ids    *)
(* has an entry and creates them all (see SpecLock for its statements).    *)
(***************************************************************************)
\* The amounts of the pay requests.
LedgerAmounts == {2, 5}

\* The clients: the two accounts with their tokens, and one that presents
\* the token of the other account.
Clients ==
    {[username |-> <<"a">>, token |-> "ta"], [username |-> <<"B">>, token |-> "tb"]}

Impostor == [username |-> <<"a">>, token |-> "tb"]

PayRequest(c, target_server, amount) ==
    [kind |-> "pay", username |-> c.username, token |-> c.token,
     source |-> <<"u">>, target |-> <<"v">>, target_server |-> target_server,
     amount |-> amount, local_currency |-> FALSE]

\* The pay requests: either client pays either account; one payment is to
\* a server that does not exist, one comes with the wrong token and one
\* names no target user.
PayRequests ==
    {PayRequest(c, ts, amount) :
        c \in Clients, ts \in {<<"a">>, <<"B">>}, amount \in LedgerAmounts}
    \cup {PayRequest(c, <<"c">>, 2) : c \in Clients}
    \cup {PayRequest(c, <<"B">>, 2) : c \in {Impostor}}
    \cup {[PayRequest(c, <<"B">>, 2) EXCEPT !.target = <<>>] : c \in Clients}

\* The ids of the transactions pending in the stored accounts.
PendingIds(store) ==
    UNION {{store[u].PendingTransactions[i].ID :
               i \in 1..Len(store[u].PendingTransactions)} : u \in DOMAIN store}

\* The acknowledge and reject requests, each naming one pending transaction.
InboxRequests(store) ==
    {[kind |-> k, username |-> c.username, token |-> c.token,
      transactions |-> <<id>>] :
        k \in {"acknowledge_transactions", "reject_transactions"},
        c \in Clients, id \in PendingIds(store)}

\* The otherServers that the handler passes to Authenticate.
OtherServers(r) == IF r.kind = "pay" THEN <<r.target_server>> ELSE <<>>

\* A CheckToken that compares an empty stored token like any other.
CheckTokenAllowingEmpty(s, token) == s.token = token

\* Server.CheckToken
CheckToken(s, token) == s.token # "" /\ s.token = token

\* AuthenticateRequest, "Get servers before any non-existent server": the
\* names before the first one whose uid is badServer.
NamesBefore(serverNames, badServer) ==
    LET found == {i \in 1..Len(serverNames) :
                      badServer = HomogeniseUsername(serverNames[i])}
    IN IF found = {} THEN serverNames
       ELSE SubSeq(serverNames, 1, Min(found) - 1)

\* A lock manager that never makes a caller wait.
IdsFreeAlways(locks, ids) == TRUE

\* genericDbLock.Lock goes on when none of the ids has an entry.
IdsFree(locks, ids) == FirstLocked(locks, ids) = 0

\* A read lock that is granted while a goroutine holds the write lock.
ReadAllowedAlways(writer) == TRUE

\* plaintextDatabase.lock.RLock() succeeds when nobody holds the write lock.
ReadAllowed(writer) == writer = 0

\* The entries genericDbLock.Lock creates for goroutine g.
LockAll(locks, ids, g) ==
    [u \in DOMAIN locks \cup Range(ids) |-> IF u \in Range(ids) THEN g ELSE locks[u]]

\* An unlock that leaves every entry in place.
UnlockNothing(locks, uids) == locks

\* genericDbLock.UnlockIDs and Unlock: the entries of these uids deleted.
UnlockAll(locks, uids) == [u \in DOMAIN locks \ uids |-> locks[u]]

\* The sum of the balances of the stored accounts.
RECURSIVE SumBalances(_, _)
SumBalances(store, uids) ==
    IF uids = {} THEN 0
    ELSE LET u == CHOOSE x \in uids : TRUE
         IN store[u].Balance + SumBalances(store, uids \ {u})

\* plaintextDatabase.FreeServers with save: every modified server encoded
\* and stored under its UID.
Commit(store, cache) ==
    LET modified == {k \in DOMAIN cache : cache[k].modified}
    IN [u \in DOMAIN store \cup {cache[k].UID : k \in modified} |->
           IF \E k \in modified : cache[k].UID = u
           THEN Encode(cache[CHOOSE k \in modified : cache[k].UID = u])
           ELSE store[u]]

\* The keys of sourceServer and targetServer of the Pay call goroutine g
\* makes: r.Server and GetCachedServer(p.TargetServer) in a handler,
\* servers[0] and servers[1] in the goroutine of RejectPendingTransaction.
SourceKey(g) == loc[g].servers[1]

TargetKey(g) ==
    IF g \in Handlers THEN HomogeniseUsername(req[g].target_server)
    ELSE loc[g].servers[2]

\* Arguments that name the users as the original payment did.
PayArgumentsUnflipped(g) ==
    IF g \in Handlers
    THEN [source |-> req[g].source, target |-> req[g].target,
          sentAmount |-> req[g].amount,
          localCurrency |-> req[g].local_currency, revertable |-> TRUE]
    ELSE [source |-> req[g].transaction.Source,
          target |-> req[g].transaction.Target,
          sentAmount |-> req[g].transaction.ReceivedAmount,
          localCurrency |-> TRUE, revertable |-> FALSE]

\* The arguments of that Pay call.
PayArguments(g) ==
    IF g \in Handlers
    THEN [source |-> req[g].source, target |-> req[g].target,
          sentAmount |-> req[g].amount,
          localCurrency |-> req[g].local_currency, revertable |-> TRUE]
    ELSE [source |-> req[g].transaction.Target,
          target |-> req[g].transaction.Source,
          sentAmount |-> req[g].transaction.ReceivedAmount,
          localCurrency |-> TRUE, revertable |-> FALSE]

\* A caller that commits whatever Pay returned.
SaveAlways(g, err) == TRUE

\* Whether the DatabaseTransaction is committed when Pay returns err: the
\* wrapper of a handler aborts on an error, the goroutine of
\* RejectPendingTransaction calls tr.Finish() whatever Pay returned.
SaveAfterPay(g, err) == IF g \in Handlers THEN err = "" ELSE TRUE

\* The local variables on the way to DatabaseTransaction.free(save), after
\* which the goroutine goes to next.
Freeing(l, save, next, err) ==
    [l EXCEPT !.save = save, !.next = next, !.err = err]

LedgerFrame == UNCHANGED <<histVars, getVars, lockVars, payVars>>

\* A request arrives at handler h: AuthenticateRequest begins a
\* DatabaseTransaction and builds serverNames.  A reject request is taken
\* when the goroutine that the handler's last rejection started has ended.
Request(h) ==
    /\ h \in Handlers
    /\ pc[h] = "idle"
    /\ reqCount < MaxRequests
    /\ \E r \in PayRequests \cup InboxRequests(db) :
          /\ r.kind = "reject_transactions" => pc[Reverter(h)] = "idle"
          /\ req' = [req EXCEPT ![h] = r]
          /\ loc' = [loc EXCEPT ![h] =
                        [NoLocals EXCEPT !.serverNames = <<r.username>> \o OtherServers(r),
                                         !.attempt = 1]]
    /\ pc' = [pc EXCEPT ![h] = "lock"]
    /\ reqCount' = reqCount + 1
    /\ UNCHANGED <<db, dbWriter, dblock, tr, idVars>>
    /\ LedgerFrame

\* DatabaseTransaction.GetServers up to the return of dblock.Lock in
\* plaintextDatabase.GetServers: the list is deduplicated in place and the
\* ids are locked.
GetServersLock(g) ==
    /\ pc[g] = "lock"
    /\ \E dd \in {Deduplicate(loc[g].serverNames)} :
       \E ids \in {LockIds(dd.names)} :
          /\ IdsFree(dblock, ids)
          /\ dblock' = LockAll(dblock, ids, g)
          /\ loc' = [loc EXCEPT ![g].serverNames = dd.rawNames,
                                ![g].names = dd.names,
                                ![g].deduplicated = dd.deduplicated]
    /\ tr' = [tr EXCEPT ![g] = [isNil |-> FALSE, servers |-> <<>>, read |-> <<>>]]
    /\ pc' = [pc EXCEPT ![g] = "read"]
    /\ UNCHANGED <<db, dbWriter, req, reqCount, idVars>>
    /\ LedgerFrame

\* The rest of GetServers, under the read lock of the store, and what its
\* caller does with the result before it touches shared state again.
\* AuthenticateRequest retries once with the names before a missing one,
\* after tr.Abort(); the goroutine of RejectPendingTransaction returns.
\* Each intermediate result is bound by \E over a singleton, so that it is
\* one value wherever it is used.
GetServersRead(g) ==
    /\ pc[g] = "read"
    /\ ReadAllowed(dbWriter)
    /\ \E ids \in {LockIds(loc[g].names)} :
       \E back \in {ReadServers(db, ids)} :
       \E out \in {FinishGetServers([names |-> loc[g].names,
                                     rawNames |-> loc[g].serverNames,
                                     deduplicated |-> loc[g].deduplicated], back)} :
       \E before \in {NamesBefore(loc[g].serverNames, out.bad)} :
       \E l \in {[loc[g] EXCEPT !.servers = out.servers]} :
          /\ dblock' = IF back.ok THEN dblock ELSE UnlockAll(dblock, Range(ids))
          /\ tr' = [tr EXCEPT ![g] =
                       [isNil |-> FALSE, servers |-> out.cache,
                        read |-> [u \in DOMAIN out.cache |-> db[u]]]]
          /\ IF out.ok
             THEN /\ loc' = [loc EXCEPT ![g] = l]
                  /\ pc' = [pc EXCEPT ![g] = "handle"]
             ELSE /\ pc' = [pc EXCEPT ![g] = "free"]
                  /\ loc' = [loc EXCEPT ![g] =
                        IF g \in Handlers /\ loc[g].attempt = 1 /\ Len(before) > 0
                        THEN [Freeing(l, FALSE, "lock", "")
                                 EXCEPT !.serverNames = before, !.attempt = 2]
                        ELSE IF g \in Handlers
                        THEN Freeing(l, FALSE, "idle", "ERR_INVALIDLOGIN")
                        ELSE Freeing(l, FALSE, "idle", "")]
    /\ UNCHANGED <<db, dbWriter, req, reqCount, idVars>>
    /\ LedgerFrame

\* AuthenticateRequest found the account and its token is the request's.
Authenticated(h) ==
    /\ h \in Handlers
    /\ pc[h] = "handle"
    /\ CheckToken(tr[h].servers[SourceKey(h)], req[h].token)

\* The token is wrong: tr.Abort() and ERR_INVALIDLOGIN.
LoginFailed(h) ==
    /\ h \in Handlers
    /\ pc[h] = "handle"
    /\ ~CheckToken(tr[h].servers[SourceKey(h)], req[h].token)
    /\ loc' = [loc EXCEPT ![h] = Freeing(loc[h], FALSE, "idle", "ERR_INVALIDLOGIN")]
    /\ pc' = [pc EXCEPT ![h] = "free"]
    /\ UNCHANGED <<db, dbWriter, dblock, req, tr, reqCount, idVars>>
    /\ LedgerFrame

\* The pay handler does not find the target server in the cache.
PayServerNotFound(h) ==
    /\ Authenticated(h)
    /\ req[h].kind = "pay"
    /\ TargetKey(h) \notin DOMAIN tr[h].servers
    /\ loc' = [loc EXCEPT ![h] = Freeing(loc[h], FALSE, "idle", "ERR_SERVERNOTFOUND")]
    /\ pc' = [pc EXCEPT ![h] = "free"]
    /\ UNCHANGED <<db, dbWriter, dblock, req, tr, reqCount, idVars>>
    /\ LedgerFrame

\* Pay is called, by the pay handler or by the goroutine of
\* RejectPendingTransaction, and runs up to the debit of the source.
PayBegin(g) ==
    /\ pc[g] = "handle"
    /\ g \in Handlers =>
          /\ Authenticated(g)
          /\ req[g].kind = "pay"
          /\ TargetKey(g) \in DOMAIN tr[g].servers
    /\ LET a == PayArguments(g)
       IN \E out \in PayDebit(tr[g].servers, SourceKey(g), a.source, a.target,
                               a.sentAmount, a.localCurrency) :
             /\ tr' = [tr EXCEPT ![g].servers = out.cache]
             /\ IF out.err = ""
                THEN /\ loc' = [loc EXCEPT ![g].amount = out.amount,
                                           ![g].source = out.source,
                                           ![g].target = out.target]
                     /\ pc' = [pc EXCEPT ![g] = "credit"]
                ELSE /\ loc' = [loc EXCEPT ![g] =
                                   Freeing(loc[g], SaveAfterPay(g, out.err),
                                           "idle", out.err)]
                     /\ pc' = [pc EXCEPT ![g] = "free"]
    /\ UNCHANGED <<db, dbWriter, dblock, req, reqCount, idVars>>
    /\ LedgerFrame

\* Pay refuses the received amount and returns, the source debited.
PayRefuse(g) ==
    /\ pc[g] = "credit"
    /\ \E receivedAmount \in GetExchangeRate(tr[g].servers[TargetKey(g)],
                                              loc[g].amount, FALSE) :
          LET err == PayReceiveError(receivedAmount)
          IN /\ err # ""
             /\ loc' = [loc EXCEPT ![g] =
                           Freeing(loc[g], SaveAfterPay(g, err), "idle", err)]
    /\ pc' = [pc EXCEPT ![g] = "free"]
    /\ UNCHANGED <<db, dbWriter, dblock, req, tr, reqCount, idVars>>
    /\ LedgerFrame

\* Pay credits the target, records the transaction and returns.
PayFinish(g) ==
    /\ pc[g] = "credit"
    /\ \E receivedAmount \in GetExchangeRate(tr[g].servers[TargetKey(g)],
                                              loc[g].amount, FALSE) :
          /\ PayReceiveError(receivedAmount) = ""
          /\ \E ret \in IdReturns :
                /\ Generate(ret)
                /\ LET a == PayArguments(g)
                       out == PayCredit(tr[g].servers, SourceKey(g), TargetKey(g),
                                        loc[g].source, loc[g].target, loc[g].amount,
                                        a.sentAmount, receivedAmount, a.revertable, ret)
                   IN /\ tr' = [tr EXCEPT ![g].servers = out.cache]
                      /\ loc' = [loc EXCEPT ![g] =
                                    Freeing(loc[g], SaveAfterPay(g, out.err),
                                            "idle", out.err)]
    /\ pc' = [pc EXCEPT ![g] = "free"]
    /\ UNCHANGED <<db, dbWriter, dblock, req, reqCount, issued>>
    /\ LedgerFrame

\* The acknowledge_transactions handler: RemovePendingTransaction(id).
Acknowledge(h) ==
    /\ Authenticated(h)
    /\ req[h].kind = "acknowledge_transactions"
    /\ tr' = [tr EXCEPT ![h].servers[SourceKey(h)] =
                 RemovePendingTransaction(@, req[h].transactions[1])]
    /\ loc' = [loc EXCEPT ![h] = Freeing(loc[h], TRUE, "idle", "")]
    /\ pc' = [pc EXCEPT ![h] = "free"]
    /\ UNCHANGED <<db, dbWriter, dblock, req, reqCount, idVars>>
    /\ LedgerFrame

\* The reject_transactions handler: RejectPendingTransaction(id, tr)
\* removes the transaction and, when it is revertable, starts the
\* goroutine that will pay it back in a DatabaseTransaction of its own.
Reject(h) ==
    /\ Authenticated(h)
    /\ req[h].kind = "reject_transactions"
    /\ LET self == tr[h].servers[SourceKey(h)]
           out == RejectPendingTransaction(self, req[h].transactions[1])
           r == Reverter(h)
       IN /\ tr' = [tr EXCEPT ![h].servers[SourceKey(h)] = out.server]
          /\ IF out.started
             THEN /\ req' = [req EXCEPT ![r] =
                                [kind |-> "revert", currentUID |-> self.UID,
                                 transaction |-> out.transaction]]
                  /\ loc' = [loc EXCEPT
                        ![h] = Freeing(loc[h], TRUE, "idle", ""),
                        ![r] = [NoLocals EXCEPT
                                   !.serverNames =
                                       <<self.UID, out.transaction.SourceServer>>,
                                   !.attempt = 1]]
                  /\ pc' = [pc EXCEPT ![h] = "free", ![r] = "lock"]
             ELSE /\ req' = req
                  /\ loc' = [loc EXCEPT ![h] = Freeing(loc[h], TRUE, "idle", "")]
                  /\ pc' = [pc EXCEPT ![h] = "free"]
    /\ UNCHANGED <<db, dbWriter, dblock, reqCount, idVars>>
    /\ LedgerFrame

\* DatabaseTransaction.free(save) up to dblock.Unlock(servers) in
\* plaintextDatabase.FreeServers, which holds the write lock of the store.
\* Without save FreeServers returns at once.
Free(g) ==
    /\ pc[g] = "free"
    /\ dbWriter = 0
    /\ dblock' = UnlockAll(dblock, {tr[g].servers[k].UID : k \in DOMAIN tr[g].servers})
    /\ IF loc[g].save
       THEN /\ dbWriter' = g
            /\ pc' = [pc EXCEPT ![g] = "write"]
            /\ UNCHANGED <<tr, loc, req>>
       ELSE /\ dbWriter' = 0
            /\ tr' = [tr EXCEPT ![g] = NilTransaction]
            /\ pc' = [pc EXCEPT ![g] = loc[g].next]
            /\ loc' = [loc EXCEPT ![g] = IF loc[g].next = "idle" THEN NoLocals ELSE @]
            /\ req' = [req EXCEPT ![g] = IF loc[g].next = "idle" THEN NoRequest ELSE @]
    /\ UNCHANGED <<db, reqCount, idVars>>
    /\ LedgerFrame

\* The rest of FreeServers with save: the modified accounts are written
\* and the write lock is released.
FreeWrite(g) ==
    /\ pc[g] = "write"
    /\ db' = Commit(db, tr[g].servers)
    /\ dbWriter' = 0
    /\ tr' = [tr EXCEPT ![g] = NilTransaction]
    /\ pc' = [pc EXCEPT ![g] = "idle"]
    /\ loc' = [loc EXCEPT ![g] = NoLocals]
    /\ req' = [req EXCEPT ![g] = NoRequest]
    /\ UNCHANGED <<dblock, reqCount, idVars>>
    /\ LedgerFrame

Init == LedgerIdle /\ HistIdle /\ IdIdle /\ GetIdle /\ LockIdle /\ PayIdle

Next ==
    \E g \in Goroutines :
        \/ Request(g)
        \/ GetServersLock(g)
        \/ GetServersRead(g)
        \/ LoginFailed(g)
        \/ PayServerNotFound(g)
        \/ PayBegin(g)
        \/ PayRefuse(g)
        \/ PayFinish(g)
        \/ Acknowledge(g)
        \/ Reject(g)
        \/ Free(g)
        \/ FreeWrite(g)

Spec == Init /\ [][Next]_vars

(***************************************************************************)
(* FairSpec: the ledger with one request left to serve, after a payment    *)
(* left a pending transaction, with every goroutine that can take a step   *)
(* taking it in the end (the Go scheduler runs every runnable goroutine).  *)
(***************************************************************************)
\* The pending transaction of a payment of 2 from account from to account
\* to, as Pay recorded it.
PaidTransaction(from, to, revertable) ==
    [MakeTransaction(<<"u">>, from, <<"v">>, to, 2, 2, 2, FormatTransactionID(0, 0), 0)
        EXCEPT !.Revertable = revertable]

\* The store with that transaction pending in the inbox of the account
\* with uid u.
StoreWithPending(u, t) ==
    [LedgerStore EXCEPT ![u].PendingTransactions = <<t>>]

\* The stores the fair ledger starts with: either account was paid by the
\* other, by a payment of a handler (revertable) or by a compensating
\* payment (not revertable).
PendingStores ==
    {StoreWithPending(<<"b">>, PaidTransaction(<<"a">>, <<"B">>, r)) :
        r \in BOOLEAN}
    \cup {StoreWithPending(<<"a">>, PaidTransaction(<<"B">>, <<"a">>, r)) :
             r \in BOOLEAN}

FairInit ==
    /\ db \in PendingStores
    /\ dbWriter = 0
    /\ dblock = <<>>
    /\ pc = [g \in Goroutines |-> "idle"]
    /\ req = [g \in Goroutines |-> NoRequest]
    /\ tr = [g \in Goroutines |-> NilTransaction]
    /\ loc = [g \in Goroutines |-> NoLocals]
    /\ reqCount = MaxRequests - 1
    /\ now = 0 /\ lastTime = -1 /\ previouslyGenerated = {0} /\ issued = <<>>
    /\ HistIdle /\ GetIdle /\ LockIdle /\ PayIdle

\* The steps of goroutine g once its request or rejection has started it.
Run(g) ==
    \/ GetServersLock(g)
    \/ GetServersRead(g)
    \/ LoginFailed(g)
    \/ PayServerNotFound(g)
    \/ PayBegin(g)
    \/ PayRefuse(g)
    \/ PayFinish(g)
    \/ Acknowledge(g)
    \/ Reject(g)
    \/ Free(g)
    \/ FreeWrite(g)

FairSpec ==
    FairInit /\ [][Next]_vars /\ \A g \in Goroutines : WF_vars(Run(g))

(***************************************************************************)
(* SpecInbox, SpecBal and SpecTarget: one method of Server called again    *)
(* and again on one account.  The account is pCache[<<"a">>], pArgs is the *)
(* last call, pBefore the account before it and pOut what it returned.     *)
(***************************************************************************)
MethodFrame == UNCHANGED <<histVars, idVars, getVars, lockVars, ledgerVars>>

MethodIdle == HistIdle /\ IdIdle /\ GetIdle /\ LockIdle /\ LedgerIdle

\* The ids of the pending transactions of ps.
InboxIdsOf(ps) == {ps[i].ID : i \in 1..Len(ps)}

\* Transaction ids: two that may be pending, and one that never is.
InboxIds == {FormatTransactionID(1, n) : n \in 1..2}

UnknownId == FormatTransactionID(1, 3)

\* A transaction that account "b" sent to account "a".
InboxTransaction(id, revertable) ==
    [MakeTransaction(<<"u">>, <<"b">>, <<"v">>, <<"a">>, 2, 2, 2, id, 1)
        EXCEPT !.Revertable = revertable]

\* The inboxes the account starts with: up to two transactions with
\* different ids.
Inboxes ==
    {<<>>}
    \cup {<<InboxTransaction(id, r)>> : id \in InboxIds, r \in BOOLEAN}
    \cup {<<InboxTransaction(i[1], r1), InboxTransaction(i[2], r2)>> :
             i \in {j \in InboxIds \X InboxIds : j[1] # j[2]},
             r1 \in BOOLEAN, r2 \in BOOLEAN}

InboxInit ==
    /\ pCache \in {(<<"a">> :> [PayAccount(<<"a">>, 3, 0)
                                  EXCEPT !.pendingTransactions = ps]) :
                      ps \in Inboxes}
    /\ pArgs = [op |-> "none", id |-> <<>>, processed |-> {}, calls |-> 0]
    /\ pPc = "ready"
    /\ pOut = [started |-> FALSE, transaction |-> EmptyTransaction]
    /\ pBefore = pCache
    /\ MethodIdle

\* The ids that the calls made so far have removed.
InboxProcessed ==
    pArgs.processed
    \cup (InboxIdsOf(pBefore[<<"a">>].pendingTransactions)
          \ InboxIdsOf(pCache[<<"a">>].pendingTransactions))

\* Server.RemovePendingTransaction(id)
InboxAcknowledge ==
    /\ pArgs.calls < MaxCalls
    /\ \E id \in InboxIds \cup {UnknownId} :
          /\ pArgs' = [op |-> "acknowledge", id |-> id,
                       processed |-> InboxProcessed, calls |-> pArgs.calls + 1]
          /\ pCache' = [pCache EXCEPT ![<<"a">>] = RemovePendingTransaction(@, id)]
    /\ pOut' = [started |-> FALSE, transaction |-> EmptyTransaction]
    /\ pBefore' = pCache
    /\ pPc' = "done"
    /\ MethodFrame

\* Server.RejectPendingTransaction(id, tr)
InboxReject ==
    /\ pArgs.calls < MaxCalls
    /\ \E id \in InboxIds \cup {UnknownId} :
          LET out == RejectPendingTransaction(pCache[<<"a">>], id)
          IN /\ pArgs' = [op |-> "reject", id |-> id,
                          processed |-> InboxProcessed,
                          calls |-> pArgs.calls + 1]
             /\ pCache' = [pCache EXCEPT ![<<"a">>] = out.server]
             /\ pOut' = [started |-> out.started, transaction |-> out.transaction]
    /\ pBefore' = pCache
    /\ pPc' = "done"
    /\ MethodFrame

InboxNext == InboxAcknowledge \/ InboxReject

SpecInbox == InboxInit /\ [][InboxNext]_vars

\* The deltas ChangeBal is called with.
BalDeltas == (0 - MaxBalance - 1)..2

BalInit ==
    /\ pCache \in {(<<"a">> :> PayAccount(<<"a">>, b, 0)) : b \in 0..MaxBalance}
    /\ pArgs = [op |-> "none", num |-> 0, calls |-> 0]
    /\ pPc = "ready"
    /\ pOut = [ok |-> FALSE]
    /\ pBefore = pCache
    /\ MethodIdle

\* Server.ChangeBal(num)
BalChangeBal ==
    /\ pArgs.calls < MaxCalls
    /\ \E num \in BalDeltas :
          LET out == ChangeBal(pCache[<<"a">>], num)
          IN /\ pArgs' = [op |-> "ChangeBal", num |-> num,
                          calls |-> pArgs.calls + 1]
             /\ pCache' = [pCache EXCEPT ![<<"a">>] = out.server]
             /\ pOut' = [ok |-> out.ok]
    /\ pBefore' = pCache
    /\ pPc' = "done"
    /\ MethodFrame

BalNext == BalChangeBal

SpecBal == BalInit /\ [][BalNext]_vars

\* The target balances SetTargetBalance is called with: around both ends
\* of the allowed range, the default and one in the middle.
TargetValues ==
    {0 - 1, 0, 1, DefaultTargetBalance * 100, MaxTargetBalance \div 2,
     MaxTargetBalance - 1, MaxTargetBalance, MaxTargetBalance + 1}

\* A new account, as NewServer returns it and as it is loaded after it was
\* saved.
TargetInit ==
    /\ pCache \in {(<<"a">> :> NewServer(<<"a">>, "t")),
                   (<<"a">> :> Decode(Encode(NewServer(<<"a">>, "t"))))}
    /\ pArgs = [op |-> "none", targetBalance |-> 0, calls |-> 0]
    /\ pPc = "ready"
    /\ pOut = [ok |-> FALSE]
    /\ pBefore = pCache
    /\ MethodIdle

\* Server.SetTargetBalance(targetBalance)
TargetSet ==
    /\ pArgs.calls < MaxCalls
    /\ \E v \in TargetValues :
          LET out == SetTargetBalance(pCache[<<"a">>], v)
          IN /\ pArgs' = [op |-> "SetTargetBalance", targetBalance |-> v,
                          calls |-> pArgs.calls + 1]
             /\ pCache' = [pCache EXCEPT ![<<"a">>] = out.server]
             /\ pOut' = [ok |-> out.ok]
    /\ pBefore' = pCache
    /\ pPc' = "done"
    /\ MethodFrame

TargetNext == TargetSet

SpecTarget == TargetInit /\ [][TargetNext]_vars

(***************************************************************************)
(* SpecStore: callers of the plaintext backend through DatabaseTransaction.*)
(* Each call begins a DatabaseTransaction, fetches accounts or creates     *)
(* one, changes what it holds and calls Finish or Abort; afterwards Finish *)
(* or Abort may be called on the same DatabaseTransaction again.  The      *)
(* variables are those of the ledger; the callers are the handler          *)
(* goroutines.                                                             *)
(***************************************************************************)
\* The name lists of the GetServers calls: accounts that exist, in both
\* orders, and one that does not.
StoreFetchNames ==
    {<<<<"a">>>>, <<<<"B">>>>, <<<<"c">>>>, <<<<"a">>, <<"B">>>>,
     <<<<"B">>, <<"a">>>>, <<<<"a">>, <<"c">>>>}

\* The names of the CreateServer calls: two spellings of one new uid, and
\* the name of an account that exists.
StoreCreateNames == {<<"c">>, <<"C", " ">>, <<"a">>}

\* The local variables of a caller: the names it passes on, the result of
\* its fetch or create, the save argument of free and the number of
\* further Finish or Abort calls it has made.
StoreLocals(names) ==
    [names |-> names, ok |-> FALSE, bad |-> <<>>, save |-> FALSE, again |-> 0]

\* The ids the backend locks for the caller's request.
StoreIds(g) ==
    IF req[g].kind = "fetch" THEN LockIds(Deduplicate(req[g].names).names)
    ELSE LockIds(loc[g].names)

\* A write lock that is granted while another goroutine holds it.
WriteAllowedAlways(writer) == TRUE

\* plaintextDatabase.lock.Lock() succeeds when nobody holds the lock.
WriteAllowed(writer) == writer = 0

\* A free that leaves the cache of the DatabaseTransaction in place.
AfterFreeKept(t) == t

\* "self.servers = nil" at the end of DatabaseTransaction.free.
AfterFree(t) == NilTransaction

\* The uids of the servers a DatabaseTransaction caches.
CachedUids(t) == {t.servers[k].UID : k \in DOMAIN t.servers}

StoreFrame == UNCHANGED <<histVars, idVars, getVars, lockVars, payVars>>

\* tr := BeginDbTransaction(db); tr.GetServers(names...) is called.
StoreFetch(g) ==
    /\ g \in Handlers
    /\ pc[g] = "idle"
    /\ reqCount < MaxStoreCalls
    /\ \E names \in StoreFetchNames :
          /\ req' = [req EXCEPT ![g] = [kind |-> "fetch", names |-> names]]
          /\ loc' = [loc EXCEPT ![g] = StoreLocals(names)]
    /\ tr' = [tr EXCEPT ![g] = NilTransaction]
    /\ pc' = [pc EXCEPT ![g] = "lock"]
    /\ reqCount' = reqCount + 1
    /\ UNCHANGED <<db, dbWriter, dblock>>
    /\ StoreFrame

\* tr := BeginDbTransaction(db); tr.CreateServer(name) is called and
\* pasteurises the name.
StoreCreate(g) ==
    /\ g \in Handlers
    /\ pc[g] = "idle"
    /\ reqCount < MaxStoreCalls
    /\ \E name \in StoreCreateNames :
          /\ req' = [req EXCEPT ![g] = [kind |-> "create", name |-> name]]
          /\ loc' = [loc EXCEPT ![g] =
                        StoreLocals(<<PasteuriseUsername(name).res>>)]
    /\ tr' = [tr EXCEPT ![g] = NilTransaction]
    /\ pc' = [pc EXCEPT ![g] = "lock"]
    /\ reqCount' = reqCount + 1
    /\ UNCHANGED <<db, dbWriter, dblock>>
    /\ StoreFrame

\* dblock.Lock(names) returns in plaintextDatabase.GetServers or
\* CreateServer; self.servers of the DatabaseTransaction is a map now.
StoreLock(g) ==
    /\ g \in Handlers
    /\ pc[g] = "lock"
    /\ IdsFree(dblock, StoreIds(g))
    /\ dblock' = LockAll(dblock, StoreIds(g), g)
    /\ tr' = [tr EXCEPT ![g] = [isNil |-> FALSE, servers |-> <<>>, read |-> <<>>]]
    /\ pc' = [pc EXCEPT ![g] = IF req[g].kind = "fetch" THEN "read" ELSE "check"]
    /\ UNCHANGED <<db, dbWriter, req, loc, reqCount>>
    /\ StoreFrame

\* The rest of GetServers: under the read lock every account is decoded,
\* or the ids are unlocked again at the first one that is missing.
StoreRead(g) ==
    /\ g \in Handlers
    /\ pc[g] = "read"
    /\ ReadAllowed(dbWriter)
    /\ LET dd == Deduplicate(req[g].names)
           back == ReadServers(db, StoreIds(g))
           out == FinishGetServers(dd, back)
       IN /\ dblock' = IF back.ok THEN dblock
                       ELSE UnlockAll(dblock, Range(StoreIds(g)))
          /\ tr' = [tr EXCEPT ![g] =
                       [isNil |-> FALSE, servers |-> out.cache,
                        read |-> [u \in DOMAIN out.cache |-> db[u]]]]
          /\ loc' = [loc EXCEPT ![g].ok = out.ok, ![g].bad = out.bad]
    /\ pc' = [pc EXCEPT ![g] = "held"]
    /\ UNCHANGED <<db, dbWriter, req, reqCount>>
    /\ StoreFrame

\* The rest of CreateServer: under the write lock of the store, the id is
\* unlocked again when an account is stored under it, and otherwise a new
\* server is returned and cached under its uid.
StoreCheck(g) ==
    /\ g \in Handlers
    /\ pc[g] = "check"
    /\ WriteAllowed(dbWriter)
    /\ LET id == StoreIds(g)[1]
           server == NewServer(loc[g].names[1], "tn")
       IN IF id \in DOMAIN db
          THEN /\ dblock' = UnlockAll(dblock, {id})
               /\ loc' = [loc EXCEPT ![g].ok = FALSE]
               /\ UNCHANGED tr
          ELSE /\ tr' = [tr EXCEPT ![g].servers =
                            (HomogeniseUsername(loc[g].names[1]) :> server)]
               /\ loc' = [loc EXCEPT ![g].ok = TRUE]
               /\ UNCHANGED dblock
    /\ pc' = [pc EXCEPT ![g] = "held"]
    /\ UNCHANGED <<db, dbWriter, req, reqCount>>
    /\ StoreFrame

\* The caller changes every account it holds and calls tr.Finish() or
\* tr.Abort().
StoreUse(g) ==
    /\ g \in Handlers
    /\ pc[g] = "held"
    /\ \E save \in BOOLEAN : loc' = [loc EXCEPT ![g].save = save]
    /\ tr' = [tr EXCEPT ![g].servers =
                 [k \in DOMAIN tr[g].servers |->
                     ChangeBal(tr[g].servers[k], 1).server]]
    /\ pc' = [pc EXCEPT ![g] = "free"]
    /\ UNCHANGED <<db, dbWriter, dblock, req, reqCount>>
    /\ StoreFrame

\* DatabaseTransaction.free(save): nothing when self.servers is nil;
\* otherwise FreeServers takes the write lock of the store and unlocks the
\* ids, and without save returns.
StoreFree(g) ==
    /\ g \in Handlers
    /\ pc[g] \in {"free", "again"}
    /\ IF tr[g].isNil
       THEN /\ pc' = [pc EXCEPT ![g] = "idle"]
            /\ UNCHANGED <<dbWriter, dblock, tr>>
       ELSE /\ WriteAllowed(dbWriter)
            /\ dblock' = UnlockAll(dblock, CachedUids(tr[g]))
            /\ IF loc[g].save
               THEN /\ dbWriter' = g
                    /\ pc' = [pc EXCEPT ![g] = "write"]
                    /\ UNCHANGED tr
               ELSE /\ tr' = [tr EXCEPT ![g] = AfterFree(tr[g])]
                    /\ pc' = [pc EXCEPT ![g] = "idle"]
                    /\ UNCHANGED dbWriter
    /\ UNCHANGED <<db, req, loc, reqCount>>
    /\ StoreFrame

\* The rest of FreeServers(servers, true): the modified accounts are
\* written, the write lock is released and free forgets the cache.
StoreWrite(g) ==
    /\ g \in Handlers
    /\ pc[g] = "write"
    /\ db' = Commit(db, tr[g].servers)
    /\ dbWriter' = 0
    /\ tr' = [tr EXCEPT ![g] = AfterFree(tr[g])]
    /\ pc' = [pc EXCEPT ![g] = "idle"]
    /\ UNCHANGED <<dblock, req, loc, reqCount>>
    /\ StoreFrame

\* Finish or Abort is called once more on a DatabaseTransaction that was
\* freed.
StoreAgain(g) ==
    /\ g \in Handlers
    /\ pc[g] = "idle"
    /\ req[g].kind # "none"
    /\ loc[g].again < MaxAgain
    /\ \E save \in BOOLEAN :
          loc' = [loc EXCEPT ![g].save = save, ![g].again = @ + 1]
    /\ pc' = [pc EXCEPT ![g] = "again"]
    /\ UNCHANGED <<db, dbWriter, dblock, req, tr, reqCount>>
    /\ StoreFrame

StoreInit == LedgerIdle /\ HistIdle /\ IdIdle /\ GetIdle /\ LockIdle /\ PayIdle

StoreNext ==
    \E g \in Handlers :
        \/ StoreFetch(g)
        \/ StoreCreate(g)
        \/ StoreLock(g)
        \/ StoreRead(g)
        \/ StoreCheck(g)
        \/ StoreUse(g)
        \/ StoreFree(g)
        \/ StoreWrite(g)
        \/ StoreAgain(g)

SpecStore == StoreInit /\ [][StoreNext]_vars

(***************************************************************************)
(* HomogeniseUsername, PasteuriseUsername and                              *)
(* DatabaseTransaction.CreateServer applied to one name: pArgs holds the   *)
(* name, pOut what the call returned, pCache the servers map of the        *)
(* transaction and pBefore the ids the database lock holds.                *)
(***************************************************************************)
\* The longest name tried.
MaxNameLen == 3

\* Characters of names: a valid uid character, an upper-case letter, the
\* space, a character that is not graphic, a graphic character that no uid
\* holds, the replacement rune, and the underscore.
NameChars == {"a", "B", " ", "\t", "-", ReplacementChar, "_"}

NameInit ==
    /\ pArgs \in [name : SeqsUpTo(NameChars, MaxNameLen)]
    /\ pPc = "ready"
    /\ pOut = [op |-> "none", res |-> <<>>]
    /\ pCache = <<>>
    /\ pBefore = {}
    /\ MethodIdle

\* HomogeniseUsername(name)
NameHomogenise ==
    /\ pPc = "ready"
    /\ pOut' = [op |-> "homogenise", res |-> HomogeniseUsername(pArgs.name)]
    /\ pPc' = "done"
    /\ UNCHANGED <<pArgs, pCache, pBefore>>
    /\ MethodFrame

\* PasteuriseUsername(name)
NamePasteurise ==
    /\ pPc = "ready"
    /\ pOut' = [op |-> "pasteurise", res |-> PasteuriseUsername(pArgs.name).res]
    /\ pPc' = "done"
    /\ UNCHANGED <<pArgs, pCache, pBefore>>
    /\ MethodFrame

\* DatabaseTransaction.CreateServer(name) on an empty database: the name is
\* pasteurised, the database locks its id and makes the account, and the
\* transaction caches the account under the homogenised name.
NameCreateServer ==
    /\ pPc = "ready"
    /\ LET name == PasteuriseUsername(pArgs.name).res
           ids == LockIds(<<name>>)
           server == NewServer(name, "t")
       IN /\ pBefore' = Range(ids)
          /\ pCache' = (HomogeniseUsername(name) :> server)
          /\ pOut' = [op |-> "create", res |-> server.Name]
    /\ pPc' = "done"
    /\ UNCHANGED pArgs
    /\ MethodFrame

NameNext == NameHomogenise \/ NamePasteurise \/ NameCreateServer

SpecNames == NameInit /\ [][NameNext]_vars

(***************************************************************************)
(* Currency as text: RawString, MarshalJSON, setString, UnmarshalJSON and  *)
(* ParseCurrency.  setString goes through big.Float, which is modelled as  *)
(* a sign, a mantissa of FloatPrec bits whose first bit is 1 and an        *)
(* exponent, standing for 0.mant * 2^exp, or as zero.                      *)
(***************************************************************************)
\* The precision big.Float takes when none was set:
\* "new(big.Float).SetString(data)" and the product with f100 both round to
\* a mantissa of 64 bits, to nearest even.
FloatPrec == 64

DigitChars == <<"0", "1", "2", "3", "4", "5", "6", "7", "8", "9">>

DigitOf(ch) == CHOOSE d \in 0..9 : DigitChars[d + 1] = ch

\* big.Int.String of a number that is not negative.
RECURSIVE NatString(_)
NatString(n) ==
    IF n < 10 THEN <<DigitChars[n + 1]>>
    ELSE Append(NatString(n \div 10), DigitChars[(n % 10) + 1])

\* The number a sequence of decimal digits stands for.
RECURSIVE NatOfDigits(_)
NatOfDigits(ds) ==
    IF ds = <<>> THEN 0
    ELSE 10 * NatOfDigits(SubSeq(ds, 1, Len(ds) - 1)) + DigitOf(ds[Len(ds)])

\* Currency.RawString
RawString(c) ==
    LET whole == Abs(c) \div 100
        frac == Abs(c) % 100
        res == IF c >= 0 THEN NatString(whole) ELSE <<"-">> \o NatString(whole)
    IN res \o <<".">> \o (IF frac < 10 THEN <<"0">> ELSE <<>>) \o NatString(frac)

\* Currency.MarshalJSON: RawString without one trailing zero.
MarshalJSON(c) ==
    LET res == RawString(c)
    IN IF res[Len(res)] = "0" THEN SubSeq(res, 1, Len(res) - 1) ELSE res

\* The model keeps a mantissa as words of this many bits, most
\* significant first, as big.Float keeps it in machine words.
WordBits == 16

WordBase == 2 ^ WordBits

FloatWords == FloatPrec \div WordBits

\* n words of the expansion of num/den (num < den) appended to acc, and
\* the remainder left after them.
RECURSIVE DivWords(_, _, _, _)
DivWords(num, den, n, acc) ==
    IF n = 0 THEN [words |-> acc, rem |-> num]
    ELSE DivWords((num * WordBase) % den, den, n - 1,
                  Append(acc, (num * WordBase) \div den))

\* n/d (n > 0) as num/den * 2^exp with 1/2 <= num/den < 1.
RECURSIVE Normalise(_, _, _)
Normalise(n, d, exp) ==
    IF n >= d THEN Normalise(n, 2 * d, exp + 1)
    ELSE IF 2 * n < d THEN Normalise(2 * n, d, exp - 1)
    ELSE [num |-> n, den |-> d, exp |-> exp]

\* A mantissa plus one in its last place: the words, and the carry out of
\* the first.
IncWords(w) ==
    LET open == {i \in 1..Len(w) : w[i] # WordBase - 1}
        last == IF open = {} THEN 0 ELSE CHOOSE i \in open : \A j \in open : j <= i
    IN [words |-> [i \in 1..Len(w) |->
                      IF i < last THEN w[i] ELSE IF i = last THEN w[i] + 1 ELSE 0],
        carry |-> IF last = 0 THEN 1 ELSE 0]

\* Float.round in mode ToNearestEven: kept are the words of the mantissa,
\* extra the word after them, sticky whether anything is set after that.
FloatRound(neg, kept, extra, sticky, exp) ==
    LET rbit == extra \div (WordBase \div 2)
        sbit == sticky \/ (extra % (WordBase \div 2)) # 0
        inc == IncWords(kept)
    IN IF rbit = 1 /\ (sbit \/ kept[Len(kept)] % 2 = 1)
       THEN IF inc.carry = 1
            THEN [form |-> "finite", neg |-> neg,
                  mant |-> [i \in 1..Len(kept) |->
                               IF i = 1 THEN WordBase \div 2 ELSE 0],
                  exp |-> exp + 1]
            ELSE [form |-> "finite", neg |-> neg, mant |-> inc.words, exp |-> exp]
       ELSE [form |-> "finite", neg |-> neg, mant |-> kept, exp |-> exp]

FloatZero == [form |-> "zero", neg |-> FALSE, mant |-> <<>>, exp |-> 0]

\* Float.scan of a decimal mantissa mant with k digits after the point:
\* mant / 10^k rounded once to FloatPrec bits.
FloatScan(neg, mant, k) ==
    IF mant = 0 THEN [FloatZero EXCEPT !.neg = neg]
    ELSE LET q == Normalise(mant, 10 ^ k, 0)
             d == DivWords(q.num, q.den, FloatWords + 1, <<>>)
         IN FloatRound(neg, SubSeq(d.words, 1, FloatWords),
                       d.words[FloatWords + 1], d.rem # 0, q.exp)

\* The words of (the number w stands for) * k + carry, the carry out of
\* the first word in front.
RECURSIVE MulWords(_, _, _)
MulWords(w, k, carry) ==
    IF w = <<>> THEN <<carry>>
    ELSE LET t == w[Len(w)] * k + carry
         IN Append(MulWords(SubSeq(w, 1, Len(w) - 1), k, t \div WordBase),
                   t % WordBase)

\* The number of binary digits of n < WordBase.
BitLen(n) == CHOOSE l \in 0..WordBits : n < 2 ^ l /\ (l = 0 \/ 2 ^ (l - 1) <= n)

\* The words shifted left by t < WordBits bits, the bits shifted out of the
\* first word dropped.
ShiftLeft(w, t) ==
    [i \in 1..Len(w) |->
        ((w[i] * 2 ^ t) % WordBase)
        + (IF i < Len(w) THEN w[i + 1] \div 2 ^ (WordBits - t) ELSE 0)]

\* new(big.Float).Mul(f, f100): the exact product rounded to FloatPrec bits.
FloatMul100(f) ==
    IF f.form = "zero" THEN f
    ELSE LET p == MulWords(f.mant, 100, 0)
             l == BitLen(p[1])
             s == ShiftLeft(p, WordBits - l)
         IN FloatRound(f.neg, SubSeq(s, 1, FloatWords), s[FloatWords + 1],
                       FALSE, f.exp + l)

\* Float.Int: the value truncated towards zero.
FloatInt(f) ==
    IF f.form = "zero" \/ f.exp <= 0 THEN 0
    ELSE LET whole == IF f.exp <= WordBits
                      THEN f.mant[1] \div 2 ^ (WordBits - f.exp)
                      ELSE f.mant[1] * 2 ^ (f.exp - WordBits)
                           + f.mant[2] \div 2 ^ (2 * WordBits - f.exp)
         IN IF f.neg THEN -whole ELSE whole

\* The string without its underscores: strings.ReplaceAll(num, "_", "").
RECURSIVE WithoutUnderscores(_)
WithoutUnderscores(s) ==
    IF s = <<>> THEN <<>>
    ELSE IF Head(s) = "_" THEN WithoutUnderscores(Tail(s))
    ELSE <<Head(s)>> \o WithoutUnderscores(Tail(s))

\* Currency.setString on a nil Currency: whether big.Float accepted the
\* text, and the count of hundredths it leaves in raw.
setString(data) ==
    LET neg == data # <<>> /\ Head(data) = "-"
        body == IF neg THEN Tail(data) ELSE data
        points == {i \in 1..Len(body) : body[i] = "."}
        digits == SelectSeq(body, LAMBDA ch : ch # ".")
        k == IF points = {} THEN 0 ELSE Len(body) - Min(points)
        success == /\ digits # <<>>
                   /\ Cardinality(points) <= 1
                   /\ \A i \in 1..Len(digits) : digits[i] \in Range(DigitChars)
    IN IF success
       THEN [ok |-> TRUE,
             raw |-> FloatInt(FloatMul100(FloatScan(neg, NatOfDigits(digits), k)))]
       ELSE [ok |-> FALSE, raw |-> 0]

\* ParseCurrency(num)
ParseCurrency(num) == setString(WithoutUnderscores(num))

\* Currency.UnmarshalJSON(data)
UnmarshalJSON(data) ==
    IF data # <<>> /\ Head(data) = "\"" /\ data[Len(data)] = "\""
    THEN setString(SubSeq(data, 2, Len(data) - 1))
    ELSE setString(data)

\* The largest count of hundredths tried, of either sign.
MaxCurrency == 120

CurrencyInit ==
    /\ pArgs \in [c : (0 - MaxCurrency)..MaxCurrency]
    /\ pPc = "ready"
    /\ pOut = [text |-> <<>>, ok |-> FALSE, raw |-> 0]
    /\ pCache = <<>>
    /\ pBefore = <<>>
    /\ MethodIdle

\* c.RawString()
CurrencyRawString ==
    /\ pPc = "ready"
    /\ pOut' = [pOut EXCEPT !.text = RawString(pArgs.c)]
    /\ pPc' = "raw"
    /\ UNCHANGED <<pArgs, pCache, pBefore>>
    /\ MethodFrame

\* ParseCurrency of what RawString returned
CurrencyParse ==
    /\ pPc = "raw"
    /\ LET out == ParseCurrency(pOut.text)
       IN pOut' = [pOut EXCEPT !.ok = out.ok, !.raw = out.raw]
    /\ pPc' = "parsed"
    /\ UNCHANGED <<pArgs, pCache, pBefore>>
    /\ MethodFrame

\* c.MarshalJSON()
CurrencyMarshal ==
    /\ pPc = "ready"
    /\ pOut' = [pOut EXCEPT !.text = MarshalJSON(pArgs.c)]
    /\ pPc' = "json"
    /\ UNCHANGED <<pArgs, pCache, pBefore>>
    /\ MethodFrame

\* UnmarshalJSON of what MarshalJSON returned, into a nil Currency
CurrencyUnmarshal ==
    /\ pPc = "json"
    /\ LET out == UnmarshalJSON(pOut.text)
       IN pOut' = [pOut EXCEPT !.ok = out.ok, !.raw = out.raw]
    /\ pPc' = "decoded"
    /\ UNCHANGED <<pArgs, pCache, pBefore>>
    /\ MethodFrame

CurrencyNext ==
    CurrencyRawString \/ CurrencyParse \/ CurrencyMarshal \/ CurrencyUnmarshal

SpecCurrency == CurrencyInit /\ [][CurrencyNext]_vars

(***************************************************************************)
(* BackupDatabase and RestoreDatabase.  One caller, the first handler,     *)
(* backs the store up, the store changes or is lost, and the caller        *)
(* restores the snapshot record by record.  req holds the snapshot as      *)
(* JSON, loc the decoded records, the position in them and the store that  *)
(* was backed up.                                                          *)
(***************************************************************************)
\* The characters of uids in the order of their bytes.
UidCharOrder == <<"0", "1", "_", "a", "b", "c", "u", "v", "x">>

CharRank(ch) == CHOOSE i \in 1..Len(UidCharOrder) : UidCharOrder[i] = ch

\* x < y for strings, as sort.Strings compares them.
RECURSIVE StringLess(_, _)
StringLess(x, y) ==
    IF y = <<>> THEN FALSE
    ELSE IF x = <<>> THEN TRUE
    ELSE IF Head(x) # Head(y) THEN CharRank(Head(x)) < CharRank(Head(y))
    ELSE StringLess(Tail(x), Tail(y))

\* A sort that puts the greatest string first.
RECURSIVE SortStringsDescending(_)
SortStringsDescending(S) ==
    IF S = {} THEN <<>>
    ELSE LET least == CHOOSE x \in S : \A y \in S \ {x} : StringLess(x, y)
         IN SortStringsDescending(S \ {least}) \o <<least>>

\* sort.Strings of the strings in S.
RECURSIVE SortStrings(_)
SortStrings(S) ==
    IF S = {} THEN <<>>
    ELSE LET least == CHOOSE x \in S : \A y \in S \ {x} : StringLess(x, y)
         IN <<least>> \o SortStrings(S \ {least})

\* json.Marshal of a Transaction: the three amounts become the text of
\* Currency.MarshalJSON.
JsonEncodeTransaction(t) ==
    [t EXCEPT !.Amount = MarshalJSON(t.Amount),
              !.SentAmount = MarshalJSON(t.SentAmount),
              !.ReceivedAmount = MarshalJSON(t.ReceivedAmount)]

\* json.Unmarshal into a Transaction: Currency.UnmarshalJSON reads the
\* three amounts.
JsonDecodeTransaction(j) ==
    [j EXCEPT !.Amount = UnmarshalJSON(j.Amount).raw,
              !.SentAmount = UnmarshalJSON(j.SentAmount).raw,
              !.ReceivedAmount = UnmarshalJSON(j.ReceivedAmount).raw]

\* encoder.Encode of one EncodedServer: Balance and TargetBalance are
\* *big.Int and are written digit by digit, the transactions as above.
JsonEncodeServer(e) ==
    [e EXCEPT !.History =
                  [i \in 1..Len(e.History) |-> JsonEncodeTransaction(e.History[i])],
              !.PendingTransactions =
                  [i \in 1..Len(e.PendingTransactions) |->
                      JsonEncodeTransaction(e.PendingTransactions[i])]]

\* decoder.Decode of one EncodedServer.
JsonDecodeServer(j) ==
    [j EXCEPT !.History =
                  [i \in 1..Len(j.History) |-> JsonDecodeTransaction(j.History[i])],
              !.PendingTransactions =
                  [i \in 1..Len(j.PendingTransactions) |->
                      JsonDecodeTransaction(j.PendingTransactions[i])]]

\* BackupDatabase: ForEach in the order of the sorted uids, server.Encode()
\* of every account, and the list written as JSON.
BackupDatabase(store) ==
    LET uids == SortStrings(DOMAIN store)
    IN [i \in 1..Len(uids) |-> JsonEncodeServer(Encode(Decode(store[uids[i]])))]

\* Amounts of the transaction in the history of the account that is
\* backed up, in hundredths.
RestoreAmounts == {2, 50, 53, 59, 100}

\* The stores that are backed up: account "a" has received a payment from
\* "B" that is still in its inbox.
RestoreStores ==
    {[LedgerStore EXCEPT
         ![<<"a">>].History = <<InboxTransaction(FormatTransactionID(1, 1), r)>>,
         ![<<"a">>].PendingTransactions =
             <<InboxTransaction(FormatTransactionID(1, 1), r)>>,
         ![<<"a">>].History[1].Amount = x,
         ![<<"a">>].History[1].SentAmount = x,
         ![<<"a">>].History[1].ReceivedAmount = x,
         ![<<"a">>].PendingTransactions[1].Amount = x,
         ![<<"a">>].PendingTransactions[1].SentAmount = x,
         ![<<"a">>].PendingTransactions[1].ReceivedAmount = x] :
        x \in RestoreAmounts, r \in BOOLEAN}

\* What the store can be when the snapshot is restored: unchanged, empty,
\* without account "a", or with an account "a" that was made anew.
StoresAfter(store) ==
    {store, <<>>, [u \in DOMAIN store \ {<<"a">>} |-> store[u]],
     [store EXCEPT ![<<"a">>] = Encode(NewServer(<<"a">>, "tn"))]}

RestoreLocals ==
    [source |-> <<>>, records |-> <<>>, i |-> 1, err |-> ""]

RestoreFrame == UNCHANGED <<histVars, idVars, getVars, lockVars, payVars>>

RestoreInit ==
    /\ db \in RestoreStores
    /\ dbWriter = 0
    /\ dblock = <<>>
    /\ pc = [g \in Goroutines |-> "idle"]
    /\ req = [g \in Goroutines |-> NoRequest]
    /\ tr = [g \in Goroutines |-> NilTransaction]
    /\ loc = [g \in Goroutines |-> IF g = 1 THEN RestoreLocals ELSE NoLocals]
    /\ reqCount = 0
    /\ HistIdle /\ IdIdle /\ GetIdle /\ LockIdle /\ PayIdle

\* BackupDatabase(db, writer)
RestoreBackup ==
    /\ pc[1] = "idle"
    /\ reqCount = 0
    /\ req' = [req EXCEPT ![1] = [kind |-> "restore",
                                  snapshot |-> BackupDatabase(db)]]
    /\ loc' = [loc EXCEPT ![1].source = db]
    /\ pc' = [pc EXCEPT ![1] = "backed"]
    /\ reqCount' = 1
    /\ UNCHANGED <<db, dbWriter, dblock, tr>>
    /\ RestoreFrame

\* The store changes, and RestoreDatabase(db, reader) is called and decodes
\* the snapshot.
RestoreDecode ==
    /\ pc[1] = "backed"
    /\ db' \in StoresAfter(db)
    /\ loc' = [loc EXCEPT ![1].records =
                  [i \in 1..Len(req[1].snapshot) |->
                      JsonDecodeServer(req[1].snapshot[i])]]
    /\ pc' = [pc EXCEPT ![1] = "get"]
    /\ UNCHANGED <<dbWriter, dblock, req, tr, reqCount>>
    /\ RestoreFrame

\* tr.GetOrCreateServer(encodedServer.Name) for the next record: GetServers
\* locks the id and decodes the stored account; when none is stored it
\* unlocks, and CreateServer pasteurises the name, locks its id and makes a
\* new account, or fails when an account is stored under it, and then
\* RestoreDatabase returns the error.  After the last record it returns
\* nil.  The deferred Abort finds nothing to free.
RestoreGet ==
    /\ pc[1] = "get"
    /\ IF loc[1].i > Len(loc[1].records)
       THEN /\ pc' = [pc EXCEPT ![1] = "done"]
            /\ UNCHANGED <<dblock, tr, loc>>
       ELSE LET name == loc[1].records[loc[1].i].Name
                id == LockIds(<<name>>)[1]
                pname == PasteuriseUsername(name).res
                pid == LockIds(<<pname>>)[1]
            IN IF id \in DOMAIN db
               THEN /\ IdsFree(dblock, <<id>>)
                    /\ dblock' = LockAll(dblock, <<id>>, 1)
                    /\ tr' = [tr EXCEPT ![1] =
                                 [isNil |-> FALSE,
                                  servers |-> (id :> Decode(db[id])),
                                  read |-> (id :> db[id])]]
                    /\ pc' = [pc EXCEPT ![1] = "overwrite"]
                    /\ UNCHANGED loc
               ELSE IF pid \in DOMAIN db
               THEN /\ tr' = [tr EXCEPT ![1] = AfterFree(tr[1])]
                    /\ loc' = [loc EXCEPT ![1].err = "Could not create server."]
                    /\ pc' = [pc EXCEPT ![1] = "done"]
                    /\ UNCHANGED dblock
               ELSE /\ IdsFree(dblock, <<pid>>)
                    /\ dblock' = LockAll(dblock, <<pid>>, 1)
                    /\ tr' = [tr EXCEPT ![1] =
                                 [isNil |-> FALSE,
                                  servers |-> (HomogeniseUsername(pname) :>
                                                  NewServer(pname, "tn")),
                                  read |-> <<>>]]
                    /\ pc' = [pc EXCEPT ![1] = "overwrite"]
                    /\ UNCHANGED loc
    /\ UNCHANGED <<db, dbWriter, req, reqCount>>
    /\ RestoreFrame

\* "*server = *encodedServer.Decode(); server.SetModified()"
RestoreOverwrite ==
    /\ pc[1] = "overwrite"
    /\ tr' = [tr EXCEPT ![1].servers =
                 [k \in DOMAIN tr[1].servers |->
                     [Decode(loc[1].records[loc[1].i]) EXCEPT !.modified = TRUE]]]
    /\ pc' = [pc EXCEPT ![1] = "finish"]
    /\ UNCHANGED <<db, dbWriter, dblock, req, loc, reqCount>>
    /\ RestoreFrame

\* tr.Finish(): the account is unlocked and written, and the
\* DatabaseTransaction forgets it.
RestoreFinish ==
    /\ pc[1] = "finish"
    /\ WriteAllowed(dbWriter)
    /\ dblock' = UnlockAll(dblock, CachedUids(tr[1]))
    /\ db' = Commit(db, tr[1].servers)
    /\ tr' = [tr EXCEPT ![1] = AfterFree(tr[1])]
    /\ loc' = [loc EXCEPT ![1].i = @ + 1]
    /\ pc' = [pc EXCEPT ![1] = "get"]
    /\ UNCHANGED <<dbWriter, req, reqCount>>
    /\ RestoreFrame

RestoreNext ==
    \/ RestoreBackup
    \/ RestoreDecode
    \/ RestoreGet
    \/ RestoreOverwrite
    \/ RestoreFinish

SpecRestore == RestoreInit /\ [][RestoreNext]_vars

(***************************************************************************)
(* AuthenticateRequest on a store in which account "B" has no token.  The  *)
(* handlers authenticate requests that name an account with or without a   *)
(* token, or none, and at most one other server, as the handlers of the    *)
(* API do; a handler that was let in commits and ends.                     *)
(***************************************************************************)
\* Requests that are authenticated.
MaxLogins == 2

\* The store: "a" with token "ta", "B" with the empty token.
AuthStore == [LedgerStore EXCEPT ![<<"b">>].Token = ""]

\* The requests: the name of an account or of none, the token of "a" or
\* the empty token, and no other server, one that exists or one that does
\* not.
AuthRequests ==
    {[kind |-> "auth", username |-> u, token |-> t, otherServers |-> o] :
        u \in {<<"a">>, <<"B">>, <<"c">>}, t \in {"ta", ""},
        o \in {<<>>, <<<<"B">>>>, <<<<"c">>>>}}

AuthInit ==
    /\ db = AuthStore
    /\ dbWriter = 0
    /\ dblock = <<>>
    /\ pc = [g \in Goroutines |-> "idle"]
    /\ req = [g \in Goroutines |-> NoRequest]
    /\ tr = [g \in Goroutines |-> NilTransaction]
    /\ loc = [g \in Goroutines |-> NoLocals]
    /\ reqCount = 0
    /\ HistIdle /\ IdIdle /\ GetIdle /\ LockIdle /\ PayIdle

\* AuthenticateRequest(db, username, token, otherServers) is called: it
\* begins a DatabaseTransaction and builds serverNames.
AuthRequest(h) ==
    /\ h \in Handlers
    /\ pc[h] = "idle"
    /\ reqCount < MaxLogins
    /\ \E r \in AuthRequests :
          /\ req' = [req EXCEPT ![h] = r]
          /\ loc' = [loc EXCEPT ![h] =
                        [NoLocals EXCEPT
                            !.serverNames = <<r.username>> \o r.otherServers,
                            !.attempt = 1]]
    /\ pc' = [pc EXCEPT ![h] = "lock"]
    /\ reqCount' = reqCount + 1
    /\ UNCHANGED <<db, dbWriter, dblock, tr, idVars>>
    /\ LedgerFrame

\* AuthenticateRequest returned true: the caller uses the account and
\* finishes the DatabaseTransaction.
AuthHandled(h) ==
    /\ Authenticated(h)
    /\ req[h].kind = "auth"
    /\ tr' = [tr EXCEPT ![h].servers[SourceKey(h)] = ChangeBal(@, 1).server]
    /\ loc' = [loc EXCEPT ![h] = Freeing(loc[h], TRUE, "idle", "")]
    /\ pc' = [pc EXCEPT ![h] = "free"]
    /\ UNCHANGED <<db, dbWriter, dblock, req, reqCount, idVars>>
    /\ LedgerFrame

AuthNext ==
    \E g \in Handlers :
        \/ AuthRequest(g)
        \/ GetServersLock(g)
        \/ GetServersRead(g)
        \/ LoginFailed(g)
        \/ AuthHandled(g)
        \/ Free(g)
        \/ FreeWrite(g)

SpecAuth == AuthInit /\ [][AuthNext]_vars

(***************************************************************************)
(* DatabaseTransaction.ForEach, run by the first handler, while the second *)
(* handler deletes accounts with plaintextDatabase.DeleteServer.  loc of   *)
(* the first handler holds the sorted names, the position in them, the     *)
(* uids f was applied to, the error f returned and how ForEach ended.      *)
(***************************************************************************)
\* DeleteServer calls made while ForEach runs.
MaxDeletes == 1

\* The store ForEach runs on: three accounts.
EachStore ==
    LedgerStore
    @@ (<<"c">> :> [Version |-> 0, Name |-> <<"c">>, Balance |-> 1,
                    TargetBalance |-> 0, History |-> <<>>,
                    PendingTransactions |-> <<>>, Token |-> "tc",
                    WebhookURL |-> <<>>])

EachLocals ==
    [serverNames |-> <<>>, i |-> 1, visited |-> <<>>, err |-> "",
     ended |-> "", deletes |-> 0]

EachFrame == UNCHANGED <<histVars, idVars, getVars, lockVars, payVars>>

EachInit ==
    /\ db = EachStore
    /\ dbWriter = 0
    /\ dblock = <<>>
    /\ pc = [g \in Goroutines |-> "idle"]
    /\ req = [g \in Goroutines |-> NoRequest]
    /\ tr = [g \in Goroutines |-> NilTransaction]
    /\ loc = [g \in Goroutines |-> IF g \in Handlers THEN EachLocals ELSE NoLocals]
    /\ reqCount = 0
    /\ HistIdle /\ IdIdle /\ GetIdle /\ LockIdle /\ PayIdle

\* ForEach(db, f, saveChanges) is called: ListServers and sort.Strings.
EachCall ==
    /\ pc[1] = "idle"
    /\ reqCount = 0
    /\ ReadAllowed(dbWriter)
    /\ \E saveChanges \in BOOLEAN :
          req' = [req EXCEPT ![1] = [kind |-> "foreach",
                                     saveChanges |-> saveChanges]]
    /\ loc' = [loc EXCEPT ![1].serverNames = SortStrings(DOMAIN db)]
    /\ pc' = [pc EXCEPT ![1] = "next"]
    /\ reqCount' = 1
    /\ UNCHANGED <<db, dbWriter, dblock, tr>>
    /\ EachFrame

\* The head of the loop.  After the last name ForEach returns nil.
\* Otherwise GetOneServer calls GetServers, which makes self.servers a map
\* when it is nil and goes on to the backend, and which looks into the map
\* when it is not nil and panics because the name is not in it.
EachNext ==
    /\ pc[1] = "next"
    /\ IF loc[1].i > Len(loc[1].serverNames)
       THEN /\ loc' = [loc EXCEPT ![1].ended = "returned"]
            /\ pc' = [pc EXCEPT ![1] = "abort"]
            /\ UNCHANGED tr
       ELSE IF tr[1].isNil
       THEN /\ tr' = [tr EXCEPT ![1] =
                         [isNil |-> FALSE, servers |-> <<>>, read |-> <<>>]]
            /\ pc' = [pc EXCEPT ![1] = "lock"]
            /\ UNCHANGED loc
       ELSE IF GetFromCache(tr[1].servers, <<loc[1].serverNames[loc[1].i]>>).ok
       THEN /\ pc' = [pc EXCEPT ![1] = "visit"]
            /\ UNCHANGED <<tr, loc>>
       ELSE /\ loc' = [loc EXCEPT ![1].ended = "panicked"]
            /\ pc' = [pc EXCEPT ![1] = "abort"]
            /\ UNCHANGED tr
    /\ UNCHANGED <<db, dbWriter, dblock, req, reqCount>>
    /\ EachFrame

\* dblock.Lock(names) returns in plaintextDatabase.GetServers.
EachLock ==
    /\ pc[1] = "lock"
    /\ IdsFree(dblock, LockIds(<<loc[1].serverNames[loc[1].i]>>))
    /\ dblock' = LockAll(dblock, LockIds(<<loc[1].serverNames[loc[1].i]>>), 1)
    /\ pc' = [pc EXCEPT ![1] = "read"]
    /\ UNCHANGED <<db, dbWriter, req, tr, loc, reqCount>>
    /\ EachFrame

\* The rest of GetServers: the account is decoded and cached, or, when it
\* has been deleted, the id is unlocked and ForEach goes on to the next
\* name.
EachRead ==
    /\ pc[1] = "read"
    /\ ReadAllowed(dbWriter)
    /\ LET ids == LockIds(<<loc[1].serverNames[loc[1].i]>>)
           back == ReadServers(db, ids)
       IN IF back.ok
          THEN /\ tr' = [tr EXCEPT ![1].servers = FillCache(back.servers)]
               /\ pc' = [pc EXCEPT ![1] = "visit"]
               /\ UNCHANGED <<dblock, loc>>
          ELSE /\ dblock' = UnlockAll(dblock, Range(ids))
               /\ loc' = [loc EXCEPT ![1].i = @ + 1]
               /\ pc' = [pc EXCEPT ![1] = "next"]
               /\ UNCHANGED tr
    /\ UNCHANGED <<db, dbWriter, req, reqCount>>
    /\ EachFrame

\* f(server): f changes the account and returns nil or an error.
EachVisit ==
    /\ pc[1] = "visit"
    /\ tr' = [tr EXCEPT ![1].servers =
                 [k \in DOMAIN tr[1].servers |->
                     ChangeBal(tr[1].servers[k], 1).server]]
    /\ \E err \in {"", "ERR_F"} :
          /\ loc' = [loc EXCEPT
                        ![1].visited = Append(@, loc[1].serverNames[loc[1].i]),
                        ![1].err = err,
                        ![1].ended = IF err = "" THEN "" ELSE "returned"]
          /\ pc' = [pc EXCEPT ![1] = IF err = "" THEN "free" ELSE "abort"]
    /\ UNCHANGED <<db, dbWriter, dblock, req, reqCount>>
    /\ EachFrame

\* self.free(saveChanges) up to dblock.Unlock(servers) in FreeServers;
\* without saveChanges FreeServers returns and free forgets the cache.
EachFree ==
    /\ pc[1] = "free"
    /\ WriteAllowed(dbWriter)
    /\ dblock' = UnlockAll(dblock, CachedUids(tr[1]))
    /\ IF req[1].saveChanges
       THEN /\ dbWriter' = 1
            /\ pc' = [pc EXCEPT ![1] = "write"]
            /\ UNCHANGED <<tr, loc>>
       ELSE /\ tr' = [tr EXCEPT ![1] = AfterFree(tr[1])]
            /\ loc' = [loc EXCEPT ![1].i = @ + 1]
            /\ pc' = [pc EXCEPT ![1] = "next"]
            /\ UNCHANGED dbWriter
    /\ UNCHANGED <<db, req, reqCount>>
    /\ EachFrame

\* The rest of FreeServers(servers, true): the account is written.
EachWrite ==
    /\ pc[1] = "write"
    /\ db' = Commit(db, tr[1].servers)
    /\ dbWriter' = 0
    /\ tr' = [tr EXCEPT ![1] = AfterFree(tr[1])]
    /\ loc' = [loc EXCEPT ![1].i = @ + 1]
    /\ pc' = [pc EXCEPT ![1] = "next"]
    /\ UNCHANGED <<dblock, req, reqCount>>
    /\ EachFrame

\* The deferred self.Abort(), on a return and on a panic: free(false).
EachAbort ==
    /\ pc[1] = "abort"
    /\ IF tr[1].isNil
       THEN UNCHANGED <<dblock, tr>>
       ELSE /\ WriteAllowed(dbWriter)
            /\ dblock' = UnlockAll(dblock, CachedUids(tr[1]))
            /\ tr' = [tr EXCEPT ![1] = AfterFree(tr[1])]
    /\ pc' = [pc EXCEPT ![1] = "done"]
    /\ UNCHANGED <<db, dbWriter, req, loc, reqCount>>
    /\ EachFrame

\* DeleteServer(name) is called and dblock.Lock returns.
EachDeleteLock ==
    /\ pc[2] = "idle"
    /\ loc[2].deletes < MaxDeletes
    /\ \E uid \in DOMAIN EachStore :
          /\ IdsFree(dblock, LockIds(<<uid>>))
          /\ dblock' = LockAll(dblock, LockIds(<<uid>>), 2)
          /\ req' = [req EXCEPT ![2] = [kind |-> "delete", name |-> uid]]
    /\ loc' = [loc EXCEPT ![2].deletes = @ + 1]
    /\ pc' = [pc EXCEPT ![2] = "delete"]
    /\ UNCHANGED <<db, dbWriter, tr, reqCount>>
    /\ EachFrame

\* The rest of DeleteServer: the account is removed from the store when it
\* is there, and the deferred UnlockIDs runs.  DeleteServer does not take
\* the lock of the store: when FreeServers is writing the map at the same
\* time, the delete either happens or the runtime stops the program.
EachDelete ==
    /\ pc[2] = "delete"
    /\ \/ LET ids == LockIds(<<req[2].name>>)
          IN /\ db' = [u \in DOMAIN db \ Range(ids) |-> db[u]]
             /\ dblock' = UnlockAll(dblock, Range(ids))
             /\ pc' = [pc EXCEPT ![2] = "idle"]
       \/ /\ dbWriter # 0
          /\ pc' = [g \in Goroutines |-> "crashed"]
          /\ UNCHANGED <<db, dblock>>
    /\ UNCHANGED <<dbWriter, req, tr, loc, reqCount>>
    /\ EachFrame

EachStep ==
    \/ EachCall
    \/ EachNext
    \/ EachLock
    \/ EachRead
    \/ EachVisit
    \/ EachFree
    \/ EachWrite
    \/ EachAbort
    \/ EachDeleteLock
    \/ EachDelete

SpecForEach == EachInit /\ [][EachStep]_vars

(***************************************************************************)
(* SpecCache: GetServers called again on a DatabaseTransaction.  A caller  *)
(* begins a DatabaseTransaction and fetches accounts; while it has not     *)
(* called Finish or Abort it may call GetServers again, or, as             *)
(* GetOrCreateServer does after a failed fetch of one name, CreateServer.  *)
(* A panic of GetServers unwinds to the caller's deferred Abort.  The      *)
(* variables are those of the ledger.                                      *)
(***************************************************************************)
MaxSecond == 1     \* further GetServers calls before Finish or Abort

\* The name lists of the further GetServers calls: a uid, a name that is
\* not its uid, and two uids.
CacheSecondNames == {<<<<"a">>>>, <<<<"B">>>>, <<<<"a">>, <<"b">>>>}

\* The local variables of a caller: those of a caller of the store, the
\* number of further GetServers calls, the names of the last one and what it
\* returned, and whether it panicked.
CacheLocals(names) ==
    [names |-> names, ok |-> FALSE, bad |-> <<>>, save |-> FALSE, again |-> 0,
     calls |-> 0, second |-> <<>>,
     ret |-> [servers |-> <<>>, ok |-> FALSE, bad |-> <<>>],
     panicked |-> FALSE]

\* tr := BeginDbTransaction(db) and the first tr.GetServers(names...), or
\* GetServers on a DatabaseTransaction that was freed: self.servers is nil
\* and the call goes to the backend.
CacheFetch(g) ==
    /\ g \in Handlers
    /\ pc[g] = "idle"
    /\ tr[g].isNil
    /\ reqCount < MaxStoreCalls
    /\ \E names \in StoreFetchNames :
          /\ req' = [req EXCEPT ![g] = [kind |-> "fetch", names |-> names]]
          /\ loc' = [loc EXCEPT ![g] = CacheLocals(names)]
    /\ pc' = [pc EXCEPT ![g] = "lock"]
    /\ reqCount' = reqCount + 1
    /\ UNCHANGED <<db, dbWriter, dblock, tr>>
    /\ StoreFrame

\* A further tr.GetServers(names...) before Finish or Abort: self.servers
\* is not nil, getFromCache answers and a miss panics.
CacheSecond(g) ==
    /\ g \in Handlers
    /\ pc[g] = "held"
    /\ ~tr[g].isNil
    /\ loc[g].calls < MaxSecond
    /\ \E names \in CacheSecondNames :
          LET hit == GetFromCache(tr[g].servers, names)
          IN /\ loc' = [loc EXCEPT ![g].calls = @ + 1, ![g].second = names,
                                   ![g].ret = hit, ![g].panicked = ~hit.ok]
             /\ pc' = [pc EXCEPT ![g] = IF hit.ok THEN "held" ELSE "panicked"]
    /\ UNCHANGED <<db, dbWriter, dblock, req, tr, reqCount>>
    /\ StoreFrame

\* GetOrCreateServer(name) after its GetServers(name) failed:
\* CreateServer(name) pasteurises the name and calls the backend.
CacheCreate(g) ==
    /\ g \in Handlers
    /\ pc[g] = "held"
    /\ req[g].kind = "fetch"
    /\ Len(req[g].names) = 1
    /\ ~loc[g].ok
    /\ req' = [req EXCEPT ![g] = [kind |-> "create", name |-> req[g].names[1]]]
    /\ loc' = [loc EXCEPT ![g].names = <<PasteuriseUsername(req[g].names[1]).res>>]
    /\ pc' = [pc EXCEPT ![g] = "lock"]
    /\ UNCHANGED <<db, dbWriter, dblock, tr, reqCount>>
    /\ StoreFrame

\* The panic of GetServers reaches the caller's "defer tr.Abort()".
CacheRecover(g) ==
    /\ g \in Handlers
    /\ pc[g] = "panicked"
    /\ loc' = [loc EXCEPT ![g].save = FALSE]
    /\ pc' = [pc EXCEPT ![g] = "free"]
    /\ UNCHANGED <<db, dbWriter, dblock, req, tr, reqCount>>
    /\ StoreFrame

CacheInit == StoreInit

CacheNext ==
    \E g \in Handlers :
        \/ CacheFetch(g)
        \/ CacheSecond(g)
        \/ CacheCreate(g)
        \/ CacheRecover(g)
        \/ StoreLock(g)
        \/ StoreRead(g)
        \/ StoreCheck(g)
        \/ StoreUse(g)
        \/ StoreFree(g)
        \/ StoreWrite(g)

SpecCache == CacheInit /\ [][CacheNext]_vars

(***************************************************************************)
(* big.Float arithmetic at FloatPrec bits: SetInt, Quo, Mul and Add, each  *)
(* the exact result rounded once to nearest even, and Server.              *)
(* GetExchangeRate computed with them.  Products and quotients are worked  *)
(* out on digits of half a word, so that no intermediate value leaves the  *)
(* range of the integers of the model.                                     *)
(***************************************************************************)
DigitBase == 2 ^ (WordBits \div 2)

Zeros(n) == [i \in 1..n |-> 0]

\* The element of a set of one element.  A value that is worked out once
\* and used many times is named as the element of such a set.
Single(S) == CHOOSE x \in S : TRUE

\* The words of a mantissa as digits, and digits (an even number of them)
\* as words.
WordsToDigits(w) ==
    [i \in 1..(2 * Len(w)) |->
        IF i % 2 = 1 THEN w[(i + 1) \div 2] \div DigitBase
        ELSE w[i \div 2] % DigitBase]

DigitsToWords(d) ==
    [i \in 1..(Len(d) \div 2) |-> d[2 * i - 1] * DigitBase + d[2 * i]]

\* The words of a natural number, most significant first.
RECURSIVE NatWords(_)
NatWords(n) ==
    IF n = 0 THEN <<>> ELSE Append(NatWords(n \div WordBase), n % WordBase)

\* The places 1..i of a + b with this carry into place i, the carry out in
\* front.
RECURSIVE AddFrom(_, _, _, _, _)
AddFrom(a, b, i, carry, base) ==
    IF i = 0 THEN <<carry>>
    ELSE Single({Append(AddFrom(a, b, i - 1, t \div base, base), t % base) :
                    t \in {a[i] + b[i] + carry}})

\* a + b + carry for numbers of equal length in this base, the carry out
\* in front.
AddSeqs(a, b, carry, base) ==
    Single({AddFrom(x, y, Len(x), carry, base) : x \in {a}, y \in {b}})

\* The places 1..i of a - b with this borrow from place i.
RECURSIVE SubFrom(_, _, _, _, _)
SubFrom(a, b, i, borrow, base) ==
    IF i = 0 THEN <<>>
    ELSE Single({Append(SubFrom(a, b, i - 1, IF t < 0 THEN 1 ELSE 0, base),
                        IF t < 0 THEN t + base ELSE t) :
                    t \in {a[i] - b[i] - borrow}})

\* a - b - borrow for numbers of equal length in this base, a >= b.
SubSeqs(a, b, borrow, base) ==
    Single({SubFrom(x, y, Len(x), borrow, base) : x \in {a}, y \in {b}})

\* a < b for numbers of equal length.
LessSeqs(a, b) ==
    \E x \in {a}, y \in {b} :
       \E i \in 1..Len(x) : x[i] < y[i] /\ \A j \in 1..(i - 1) : x[j] = y[j]

\* The places 1..i of a * k with this carry into place i, the carry out in
\* front.
RECURSIVE MulFrom(_, _, _, _)
MulFrom(a, k, i, carry) ==
    IF i = 0 THEN <<carry>>
    ELSE Single({Append(MulFrom(a, k, i - 1, t \div DigitBase), t % DigitBase) :
                    t \in {a[i] * k + carry}})

\* The digits of a * k + carry for one digit k, one digit longer than a.
MulDigit(a, k, carry) ==
    Single({MulFrom(x, d, Len(x), carry) : x \in {a}, d \in {k}})

\* acc plus the rows of a * b for the digits 1..j of b, each row in its
\* place.
RECURSIVE MulRows(_, _, _, _)
MulRows(a, b, j, acc) ==
    IF j = 0 THEN acc
    ELSE Single({MulRows(a, b, j - 1, next) :
                    next \in {Tail(AddSeqs(acc,
                                           Zeros(j - 1) \o MulDigit(a, b[j], 0)
                                               \o Zeros(Len(b) - j),
                                           0, DigitBase))}})

\* The digits of a * b, Len(a) + Len(b) of them.
MulDigits(a, b) ==
    Single({MulRows(x, y, Len(y), Zeros(Len(x) + Len(y))) : x \in {a}, y \in {b}})

\* One more digit of the expansion of rem/den (rem < den, equally long,
\* the first digit of den at least half the base) and the remainder after
\* it.  The digit is the estimate from the leading digits or up to three
\* less.
QuoStep(rem, den) ==
    LET r == Append(rem, 0)
        e == (r[1] * DigitBase + r[2]) \div den[1]
        est == IF e < DigitBase THEN e ELSE DigitBase - 1
        Fits(q) == q >= 0 /\ ~LessSeqs(r, MulDigit(den, q, 0))
    IN Single({[q |-> q, rem |-> Tail(SubSeqs(r, MulDigit(den, q, 0), 0, DigitBase))] :
                  q \in {CHOOSE c \in (est - 3)..est :
                            Fits(c) /\ (c = est \/ ~Fits(c + 1))}})

\* n more digits of the expansion of rem/den appended to acc, and the
\* remainder after them.
RECURSIVE QuoDigits(_, _, _, _)
QuoDigits(rem, den, n, acc) ==
    IF n = 0 THEN [digits |-> acc, rem |-> rem]
    ELSE Single({QuoDigits(step.rem, den, n - 1, Append(acc, step.q)) :
                    step \in {QuoStep(rem, den)}})

\* The words shifted right by t < WordBits bits, one word longer.
ShiftRight(w, t) ==
    [i \in 1..(Len(w) + 1) |->
        (IF i <= Len(w) THEN w[i] \div 2 ^ t ELSE 0)
        + (IF i > 1 THEN (w[i - 1] % 2 ^ t) * 2 ^ (WordBits - t) ELSE 0)]

FloatInf(neg) == [form |-> "inf", neg |-> neg, mant |-> <<>>, exp |-> 0]

\* The words v (the first of them not 0) of 0.v * 2^exp shifted until the
\* first bit is set, and rounded to FloatPrec bits.
RoundShifted(neg, v, sticky, exp) ==
    Single({FloatRound(neg, SubSeq(s, 1, FloatWords), s[FloatWords + 1],
                       sticky \/ \E i \in (FloatWords + 2)..Len(s) : s[i] # 0,
                       exp - (WordBits - BitLen(v[1]))) :
               s \in {ShiftLeft(v, WordBits - BitLen(v[1]))}})

\* The place of the first word of w that is not 0.
LeadingWord(w) == Single({Min({i \in 1..Len(x) : x[i] # 0}) : x \in {w}})

\* Float.setExpAndRound: the number 0.w * 2^exp (w words after the point,
\* not all of them 0, sticky whether anything follows them) normalised and
\* rounded to FloatPrec bits.
RoundWords(neg, w, sticky, exp) ==
    Single({RoundShifted(neg, SubSeq(x, lead, Len(x)) \o Zeros(FloatWords + 1),
                         st, exp - WordBits * (lead - 1)) :
               x \in {w}, st \in {sticky}, lead \in {LeadingWord(w)}})

\* new(big.Float).SetInt(x)
FloatSetInt(n) ==
    IF n = 0 THEN FloatZero
    ELSE Single({RoundWords(n < 0, w, FALSE, WordBits * Len(w)) :
                    w \in {NatWords(Abs(n))}})

\* The product of two finite numbers that are not 0.
FloatMulFinite(x, y) ==
    RoundWords(x.neg # y.neg,
               DigitsToWords(MulDigits(WordsToDigits(x.mant),
                                       WordsToDigits(y.mant))),
               FALSE, x.exp + y.exp)

\* new(big.Float).Mul(x, y)
FloatMul(x, y) ==
    Single({IF f.form = "inf" \/ g.form = "inf" THEN FloatInf(f.neg # g.neg)
            ELSE IF f.form = "zero" \/ g.form = "zero"
            THEN [FloatZero EXCEPT !.neg = f.neg # g.neg]
            ELSE FloatMulFinite(f, g) :
               f \in {x}, g \in {y}})

\* The quotient of two finite numbers that are not 0, the digits a of the
\* one by the digits b of the other.
FloatQuoFinite(x, y, a, b) ==
    LET whole == IF LessSeqs(a, b) THEN 0 ELSE 1
        first == IF whole = 1 THEN SubSeqs(a, b, 0, DigitBase) ELSE a
    IN Single({RoundWords(x.neg # y.neg, DigitsToWords(q.digits),
                          \E i \in 1..Len(q.rem) : q.rem[i] # 0,
                          x.exp - y.exp + WordBits \div 2) :
                  q \in {QuoDigits(first, b, 2 * FloatWords + 1, <<whole>>)}})

\* new(big.Float).Quo(x, y), x and y not both zero and not both infinite.
FloatQuo(x, y) ==
    Single({IF f.form = "inf" \/ (g.form = "zero" /\ f.form # "zero")
            THEN FloatInf(f.neg # g.neg)
            ELSE IF f.form = "zero" \/ g.form = "inf"
            THEN [FloatZero EXCEPT !.neg = f.neg # g.neg]
            ELSE Single({FloatQuoFinite(f, g, a, b) :
                            a \in {WordsToDigits(f.mant)},
                            b \in {WordsToDigits(g.mant)}}) :
               f \in {x}, g \in {y}})

\* The sum of two finite numbers that are not 0, their mantissas a and b
\* aligned at the exponent exp and equally long.
FloatAddAligned(x, y, a, b, exp) ==
    IF x.neg = y.neg
    THEN RoundWords(x.neg, AddSeqs(a, b, 0, WordBase), FALSE, exp + WordBits)
    ELSE IF a = b THEN FloatZero
    ELSE IF LessSeqs(a, b)
    THEN RoundWords(y.neg, SubSeqs(b, a, 0, WordBase), FALSE, exp)
    ELSE RoundWords(x.neg, SubSeqs(a, b, 0, WordBase), FALSE, exp)

\* The sum of two finite numbers that are not 0.
FloatAddFinite(x, y) ==
    LET exp == IF x.exp >= y.exp THEN x.exp ELSE y.exp
        Aligned(f) ==
            Zeros((exp - f.exp) \div WordBits)
            \o ShiftRight(f.mant, (exp - f.exp) % WordBits)
        Long(a, b) == IF Len(a) >= Len(b) THEN Len(a) ELSE Len(b)
    IN Single({FloatAddAligned(x, y, a \o Zeros(Long(a, b) - Len(a)),
                               b \o Zeros(Long(a, b) - Len(b)), exp) :
                  a \in {Aligned(x)}, b \in {Aligned(y)}})

\* new(big.Float).Add(x, y), x and y not infinite with opposite signs.
FloatAdd(x, y) ==
    Single({IF f.form = "inf" THEN f
            ELSE IF g.form = "inf" THEN g
            ELSE IF f.form = "zero" THEN (IF g.form = "zero" THEN FloatZero ELSE g)
            ELSE IF g.form = "zero" THEN f
            ELSE FloatAddFinite(f, g) :
               f \in {x}, g \in {y}})

\* Currency.Float: raw / f100
CurrencyFloat(c) == FloatQuo(FloatSetInt(c), FloatSetInt(100))

\* Currency.Div
CurrencyDiv(c, num) == FloatQuo(CurrencyFloat(c), CurrencyFloat(num))

\* CurrencyFromFloat: num * f100 truncated towards zero, and 0 when that
\* is infinite (Float.Int leaves raw as it was made).
CurrencyFromFloat(num) ==
    Single({FloatInt(f) : f \in {FloatMul(num, FloatSetInt(100))}})

\* CurrencyFromString
CurrencyFromString(num) ==
    LET res == setString(WithoutUnderscores(num))
    IN IF res.ok THEN res.raw ELSE 0

\* Server.GetExchangeRate for an amount and a target balance that are not
\* 0: the Currency it returns, every step in big.Float arithmetic as the
\* code takes it.
GetExchangeRateOf(bal, targetBalance, amount, toLurkcoin) ==
    LET Adjusted(base_exchange) ==
            IF toLurkcoin
            THEN bal - CurrencyFromFloat(
                           FloatQuo(CurrencyFloat(amount), base_exchange))
            ELSE bal + amount
        Exchange(base_exchange, adj_bal) ==
            FloatQuo(FloatAdd(base_exchange, CurrencyDiv(targetBalance, adj_bal)),
                     FloatSetInt(2))
        Result(exchange) ==
            IF toLurkcoin THEN FloatQuo(CurrencyFloat(amount), exchange)
            ELSE FloatMul(CurrencyFloat(amount), exchange)
    IN Single({CurrencyFromFloat(Result(Exchange(base_exchange,
                                                 Adjusted(base_exchange)))) :
                  base_exchange \in {CurrencyDiv(targetBalance, bal)}})

\* Server.GetExchangeRate
GetExchangeRateFloat(s, amount, toLurkcoin) ==
    IF amount = 0 \/ s.targetBalance = 0 THEN amount
    ELSE Single({GetExchangeRateOf(bal, s.targetBalance, amount, toLurkcoin) :
                    bal \in {IF s.balance > 0 THEN s.balance
                             ELSE CurrencyFromString(<<"0", ".", "0", "1">>)}})

(***************************************************************************)
(* SpecRate: Server.GetExchangeRate called once on an account, in either   *)
(* direction.  pArgs holds the balance and the target balance of the       *)
(* account and the amount, pOut what the call returned.                    *)
(***************************************************************************)
MaxRateSteps == 6  \* the largest amount converted, in halves of a unit

\* The accounts and amounts tried: small balances that are 0 or whole
\* units, amounts in steps of 0.50, and the account of 250,000.00 with a
\* target of 500,000.00 that converts 100.00.
RateInputs ==
    [balance : {0, 100, 200}, targetBalance : {100, 200},
     amount : {50 * k : k \in 1..MaxRateSteps}]
    \cup {[balance |-> 25000000, targetBalance |-> 50000000, amount |-> 10000]}

RateInit ==
    /\ pArgs \in RateInputs
    /\ pPc = "ready"
    /\ pOut = [toLurkcoin |-> FALSE, res |-> 0]
    /\ pCache = <<>>
    /\ pBefore = <<>>
    /\ MethodIdle

\* server.GetExchangeRate(amount, true)
RateToLurkcoin ==
    /\ pPc = "ready"
    /\ pOut' = [toLurkcoin |-> TRUE,
                res |-> GetExchangeRateFloat(pArgs, pArgs.amount, TRUE)]
    /\ pPc' = "converted"
    /\ UNCHANGED <<pArgs, pCache, pBefore>>
    /\ MethodFrame

\* server.GetExchangeRate(amount, false)
RateFromLurkcoin ==
    /\ pPc = "ready"
    /\ pOut' = [toLurkcoin |-> FALSE,
                res |-> GetExchangeRateFloat(pArgs, pArgs.amount, FALSE)]
    /\ pPc' = "converted"
    /\ UNCHANGED <<pArgs, pCache, pBefore>>
    /\ MethodFrame

RateNext == RateToLurkcoin \/ RateFromLurkcoin

SpecRate == RateInit /\ [][RateNext]_vars

(***************************************************************************)
(* SpecRevert: a payment and what rejecting does to it, with the exchange  *)
(* rates computed in big.Float arithmetic.  Account a, at a fixed rate,    *)
(* pays account B, whose balance is 250,000.00 and whose target balance is *)
(* 500,000.00; afterwards an account rejects a transaction of its inbox,   *)
(* the goroutine that RejectPendingTransaction starts pays back and        *)
(* commits, and the inboxes can be rejected from again.  pCache holds the  *)
(* two accounts, pBefore what they were before the first payment, pOut the *)
(* last call and the payments made so far.                                 *)
(***************************************************************************)
\* The transaction limit of these runs.  The program's limit is 1e13
\* hundredths, more than an integer of the model holds; this bound, above
\* every amount of these runs, stands for it.
RevertLimit == 2000000000

\* Pay from the checks on receivedAmount on that records every
\* transaction as revertable.
PayFloatCreditRevertable(limit, cache, sk, tk, source, target, amount, sentAmount, receivedAmount, revertable, ret) ==
    IF PayReceiveErrorUnder(limit, receivedAmount) # ""
    THEN [err |-> PayReceiveErrorUnder(limit, receivedAmount), cache |-> cache,
          transaction |-> EmptyTransaction]
    ELSE PayCredit(cache, sk, tk, source, target, amount, sentAmount,
                   receivedAmount, TRUE, ret)

\* Pay from the checks on receivedAmount on, under this transaction limit.
PayFloatCredit(limit, cache, sk, tk, source, target, amount, sentAmount, receivedAmount, revertable, ret) ==
    IF PayReceiveErrorUnder(limit, receivedAmount) # ""
    THEN [err |-> PayReceiveErrorUnder(limit, receivedAmount), cache |-> cache,
          transaction |-> EmptyTransaction]
    ELSE PayCredit(cache, sk, tk, source, target, amount, sentAmount,
                   receivedAmount, revertable, ret)

\* Pay from the checks on the amounts on, for this base amount; the
\* received amount is GetExchangeRate in big.Float arithmetic, worked out
\* once.
PayFloatDebit(limit, cache, sk, tk, source, target, sentAmount, amount, revertable, ret) ==
    LET debit == PayDebitUnder(limit, cache, sk, source, target, sentAmount, amount)
    IN IF debit.err # ""
       THEN [err |-> debit.err, cache |-> debit.cache,
             transaction |-> EmptyTransaction]
       ELSE CHOOSE out \in
                {PayFloatCredit(limit, debit.cache, sk, tk, debit.source,
                                debit.target, amount, sentAmount, receivedAmount,
                                revertable, ret) :
                    receivedAmount \in
                        {GetExchangeRateFloat(debit.cache[tk], amount, FALSE)}} :
                TRUE

\* Pay that takes the amount for base units also when it is in the local
\* currency of the source.
PayFloatInBase(limit, cache, sk, tk, source, target, sentAmount, localCurrency, revertable, ret) ==
    PayFloatDebit(limit, cache, sk, tk, source, target, sentAmount, sentAmount,
                  revertable, ret)

\* The whole of Pay, with GetExchangeRate in big.Float arithmetic: the base
\* amount is worked out once and Pay goes on with it.
PayFloat(limit, cache, sk, tk, source, target, sentAmount, localCurrency, revertable, ret) ==
    CHOOSE out \in
        {PayFloatDebit(limit, cache, sk, tk, source, target, sentAmount, amount,
                       revertable, ret) :
            amount \in {IF localCurrency
                        THEN GetExchangeRateFloat(cache[sk], sentAmount, TRUE)
                        ELSE sentAmount}} :
        TRUE

\* The two accounts: a with this balance, and B.
RevertCache(balance) ==
    (<<"a">> :> PayAccount(<<"a">>, balance, 0))
    @@ (<<"b">> :> PayAccount(<<"B">>, 25000000, 50000000))

\* The first payment: the balance of a, the users, the amount in base
\* units and whether it can be reverted.
RevertInputs ==
    [balance : {5000, 10000, 30000}, source : {<<>>, <<"u">>},
     target : {<<>>, <<"v">>}, sentAmount : {2500, 10000},
     revertable : BOOLEAN]

\* What GenerateTransactionID and time.Now give the n-th payment.
RevertId(n) == <<FormatTransactionID(1, n), 1>>

RevertInit ==
    /\ pArgs \in RevertInputs
    /\ pCache = RevertCache(pArgs.balance)
    /\ pBefore = pCache
    /\ pPc = "ready"
    /\ pOut = [err |-> "", transaction |-> EmptyTransaction, payments |-> <<>>,
               started |-> FALSE, rejected |-> <<>>]
    /\ MethodIdle

\* a.Pay(source, target, B, sentAmount, false, revertable)
RevertPay ==
    /\ pPc = "ready"
    /\ \E out \in {PayFloat(RevertLimit, pCache, <<"a">>, <<"b">>, pArgs.source,
                            pArgs.target, pArgs.sentAmount, FALSE,
                            pArgs.revertable, RevertId(0))} :
          /\ pCache' = out.cache
          /\ pOut' = [pOut EXCEPT !.err = out.err,
                                  !.transaction = out.transaction,
                                  !.payments = IF out.err = "" THEN <<out.transaction>>
                                               ELSE <<>>]
          /\ pPc' = IF out.err = "" THEN "paid" ELSE "refused"
    /\ UNCHANGED <<pArgs, pBefore>>
    /\ MethodFrame

\* server.RejectPendingTransaction(id, tr) on an account with a pending
\* transaction of this id.
RevertReject ==
    /\ pPc = "paid"
    /\ \E u \in DOMAIN pCache :
          \E i \in 1..Len(pCache[u].pendingTransactions) :
             \E out \in {RejectPendingTransaction(
                             pCache[u], pCache[u].pendingTransactions[i].ID)} :
                /\ pCache' = [pCache EXCEPT ![u] = out.server]
                /\ pOut' = [pOut EXCEPT !.started = out.started,
                                        !.transaction = out.transaction,
                                        !.rejected = Append(@, out.transaction)]
                /\ pPc' = IF out.started THEN "started" ELSE "paid"
    /\ UNCHANGED <<pArgs, pBefore>>
    /\ MethodFrame

\* The goroutine of RejectPendingTransaction: servers[0] is the account
\* that rejected, servers[1] the source server of the transaction;
\* servers[0].Pay(Target, Source, servers[1], ReceivedAmount, true, false)
\* and tr.Finish().
RevertCompensate ==
    /\ pPc = "started"
    /\ LET t == pOut.transaction
           sk == HomogeniseUsername(t.TargetServer)
           tk == HomogeniseUsername(t.SourceServer)
       IN \E out \in {PayFloat(RevertLimit, pCache, sk, tk, t.Target, t.Source,
                               t.ReceivedAmount, TRUE, FALSE,
                               RevertId(Len(pOut.payments)))} :
             /\ pCache' = out.cache
             /\ pOut' = [pOut EXCEPT !.err = out.err, !.started = FALSE,
                                     !.transaction = out.transaction,
                                     !.payments = IF out.err = ""
                                                  THEN Append(@, out.transaction)
                                                  ELSE @]
    /\ pPc' = "paid"
    /\ UNCHANGED <<pArgs, pBefore>>
    /\ MethodFrame

RevertNext == RevertPay \/ RevertReject \/ RevertCompensate

SpecRevert == RevertInit /\ [][RevertNext]_vars

(***************************************************************************)
(* SpecOnce: the ledger with one revertable transaction pending in the     *)
(* inbox of B, and acknowledge and reject requests that name its id        *)
(* arriving at both handlers.                                              *)
(***************************************************************************)
\* The pending transaction: a paid B a second before the clock starts.
OnceTransaction ==
    [MakeTransaction(<<"u">>, <<"a">>, <<"v">>, <<"B">>, 2, 2, 2,
                     FormatTransactionID(-1, 0), -1)
        EXCEPT !.Revertable = TRUE]

\* The store after that payment.
OnceStore ==
    [u \in DOMAIN LedgerStore |->
        [LedgerStore[u] EXCEPT
            !.History = <<OnceTransaction>>,
            !.PendingTransactions = IF u = <<"b">> THEN <<OnceTransaction>> ELSE <<>>]]

\* The acknowledge and reject requests of either client that name the id.
OnceRequests ==
    {[kind |-> k, username |-> c.username, token |-> c.token,
      transactions |-> <<OnceTransaction.ID>>] :
        k \in {"acknowledge_transactions", "reject_transactions"}, c \in Clients}

OnceInit ==
    /\ db = OnceStore
    /\ dbWriter = 0
    /\ dblock = <<>>
    /\ pc = [g \in Goroutines |-> "idle"]
    /\ req = [g \in Goroutines |-> NoRequest]
    /\ tr = [g \in Goroutines |-> NilTransaction]
    /\ loc = [g \in Goroutines |-> NoLocals]
    /\ reqCount = 0
    /\ HistIdle /\ IdIdle /\ GetIdle /\ LockIdle /\ PayIdle

\* A request that names the id arrives at handler h.
OnceRequest(h) ==
    /\ h \in Handlers
    /\ pc[h] = "idle"
    /\ reqCount < MaxRequests
    /\ \E r \in OnceRequests :
          /\ r.kind = "reject_transactions" => pc[Reverter(h)] = "idle"
          /\ req' = [req EXCEPT ![h] = r]
          /\ loc' = [loc EXCEPT ![h] =
                        [NoLocals EXCEPT !.serverNames = <<r.username>> \o OtherServers(r),
                                         !.attempt = 1]]
    /\ pc' = [pc EXCEPT ![h] = "lock"]
    /\ reqCount' = reqCount + 1
    /\ UNCHANGED <<db, dbWriter, dblock, tr, idVars>>
    /\ LedgerFrame

OnceNext ==
    \E g \in Goroutines :
        \/ OnceRequest(g)
        \/ GetServersLock(g)
        \/ GetServersRead(g)
        \/ PayBegin(g)
        \/ PayFinish(g)
        \/ Acknowledge(g)
        \/ Reject(g)
        \/ Free(g)
        \/ FreeWrite(g)

SpecOnce == OnceInit /\ [][OnceNext]_vars

(***************************************************************************)
(* SpecFirst: RemoveFirstPendingTransactions on inboxes of every length,   *)
(* called with an amount or from the remove_transactions endpoint of the   *)
(* version 2 API.                                                          *)
(***************************************************************************)
MaxInbox == 4      \* longest inbox

\* The account with an inbox of this many transactions.
FirstAccount(len, modified) ==
    [PayAccount(<<"a">>, 5, 0) EXCEPT
        !.modified = modified,
        !.pendingTransactions =
            [i \in 1..len |->
                MakeTransaction(<<"u">>, <<"B">>, <<"v">>, <<"a">>, i, i, i,
                                FormatTransactionID(0, i), 0)]]

\* Server.RemoveFirstPendingTransactions: the account afterwards, and
\* whether the slice expression pendingTransactions[amount:] panicked.
RemoveFirstPendingTransactions(s, amount) ==
    IF amount < 1 THEN [server |-> s, panicked |-> FALSE]
    ELSE LET l == Len(s.pendingTransactions)
             marked == [s EXCEPT !.modified = TRUE]
         IN IF amount > l THEN [server |-> marked, panicked |-> TRUE]
            ELSE [server |-> [marked EXCEPT !.pendingTransactions =
                                                SubSeq(@, amount + 1, l)],
                  panicked |-> FALSE]

\* The amount field of the form: missing or not a number, or a number.
FirstForms == {[ok |-> FALSE, amount |-> 0]}
              \cup [ok : {TRUE}, amount : -1..(MaxInbox + 2)]

\* strconv.Atoi(f.Get("amount")) in the remove_transactions handler.
FormAmount(f) == IF ~f.ok \/ f.amount < 1 THEN 1 ELSE f.amount

FirstInit ==
    /\ pArgs \in [len : 0..MaxInbox, modified : BOOLEAN]
    /\ pCache = (<<"a">> :> FirstAccount(pArgs.len, pArgs.modified))
    /\ pBefore = pCache
    /\ pPc = "ready"
    /\ pOut = [amount |-> 0, panicked |-> FALSE]
    /\ MethodIdle

\* server.RemoveFirstPendingTransactions(amount)
FirstRemove ==
    /\ pPc = "ready"
    /\ \E amount \in -1..(MaxInbox + 2) :
          LET out == RemoveFirstPendingTransactions(pCache[<<"a">>], amount)
          IN /\ pCache' = [pCache EXCEPT ![<<"a">>] = out.server]
             /\ pOut' = [amount |-> amount, panicked |-> out.panicked]
             /\ pPc' = IF out.panicked THEN "panicked" ELSE "removed"
    /\ UNCHANGED <<pArgs, pBefore>>
    /\ MethodFrame

\* The remove_transactions handler of the version 2 API.
FirstRemoveV2 ==
    /\ pPc = "ready"
    /\ \E f \in FirstForms :
          LET out == RemoveFirstPendingTransactions(pCache[<<"a">>], FormAmount(f))
          IN /\ pCache' = [pCache EXCEPT ![<<"a">>] = out.server]
             /\ pOut' = [amount |-> FormAmount(f), panicked |-> out.panicked]
             /\ pPc' = IF out.panicked THEN "panicked" ELSE "done"
    /\ UNCHANGED <<pArgs, pBefore>>
    /\ MethodFrame

FirstNext == FirstRemove \/ FirstRemoveV2

SpecFirst == FirstInit /\ [][FirstNext]_vars

(***************************************************************************)
(* SpecCommit: callers fetch accounts of the store, try one change on one  *)
(* of the accounts they hold, or none, and call Finish or Abort.  Each     *)
(* caller remembers the uids on which a change returned success and the    *)
(* uids that FreeServers wrote.                                            *)
(***************************************************************************)
CommitLocals(names) ==
    [names |-> names, ok |-> FALSE, bad |-> <<>>, save |-> FALSE, again |-> 0,
     changed |-> {}, written |-> {}]

\* The changes a caller tries: each one that succeeds and one that fails.
CommitMutations ==
    [kind : {"ChangeBal"}, arg : {-9, 1}]
    \cup [kind : {"SetTargetBalance"}, arg : {-1, 4, MaxTargetBalance + 1}]
    \cup [kind : {"RemovePendingTransaction"},
          arg : {OnceTransaction.ID, FormatTransactionID(0, 0)}]

\* The account after the change, and whether the change was made.
ApplyMutation(s, m) ==
    IF m.kind = "ChangeBal" THEN ChangeBal(s, m.arg)
    ELSE IF m.kind = "SetTargetBalance" THEN SetTargetBalance(s, m.arg)
    ELSE [ok |-> PendingIndex(s, m.arg) # 0,
          server |-> RemovePendingTransaction(s, m.arg)]

\* What a caller can have done to the accounts it holds: nothing, or one
\* change tried on one account.
CommitOutcomes(cache) ==
    {[cache |-> cache, changed |-> {}]}
    \cup {[cache |-> [cache EXCEPT ![k] = ApplyMutation(cache[k], m).server],
           changed |-> IF ApplyMutation(cache[k], m).ok THEN {cache[k].UID} ELSE {}] :
             k \in DOMAIN cache, m \in CommitMutations}

\* A set of uids that holds every account of the cache.
WrittenUidsAll(cache) == {cache[k].UID : k \in DOMAIN cache}

\* The uids FreeServers writes: those of the servers with IsModified().
WrittenUids(cache) == {cache[k].UID : k \in {j \in DOMAIN cache : cache[j].modified}}

CommitInit == OnceInit

\* tr := BeginDbTransaction(db); tr.GetServers(names...) is called.
CommitFetch(g) ==
    /\ g \in Handlers
    /\ pc[g] = "idle"
    /\ reqCount < MaxStoreCalls
    /\ \E names \in StoreFetchNames :
          /\ req' = [req EXCEPT ![g] = [kind |-> "fetch", names |-> names]]
          /\ loc' = [loc EXCEPT ![g] = CommitLocals(names)]
    /\ tr' = [tr EXCEPT ![g] = NilTransaction]
    /\ pc' = [pc EXCEPT ![g] = "lock"]
    /\ reqCount' = reqCount + 1
    /\ UNCHANGED <<db, dbWriter, dblock>>
    /\ StoreFrame

\* The caller tries a change, or none, and calls tr.Finish() or tr.Abort().
CommitUse(g) ==
    /\ g \in Handlers
    /\ pc[g] = "held"
    /\ \E save \in BOOLEAN : \E out \in CommitOutcomes(tr[g].servers) :
          /\ tr' = [tr EXCEPT ![g].servers = out.cache]
          /\ loc' = [loc EXCEPT ![g].save = save, ![g].changed = out.changed]
    /\ pc' = [pc EXCEPT ![g] = "free"]
    /\ UNCHANGED <<db, dbWriter, dblock, req, reqCount>>
    /\ StoreFrame

\* The rest of FreeServers(servers, true): the accounts with the modified
\* flag are encoded and stored, the write lock is released and free
\* forgets the cache.
CommitWrite(g) ==
    /\ g \in Handlers
    /\ pc[g] = "write"
    /\ \E written \in {WrittenUids(tr[g].servers)} :
          /\ db' = [u \in DOMAIN db \cup written |->
                       IF u \in written
                       THEN Encode(tr[g].servers[
                                CHOOSE k \in DOMAIN tr[g].servers :
                                    tr[g].servers[k].UID = u])
                       ELSE db[u]]
          /\ loc' = [loc EXCEPT ![g].written = written]
    /\ dbWriter' = 0
    /\ tr' = [tr EXCEPT ![g] = AfterFree(tr[g])]
    /\ pc' = [pc EXCEPT ![g] = "idle"]
    /\ UNCHANGED <<dblock, req, reqCount>>
    /\ StoreFrame

CommitNext ==
    \E g \in Handlers :
        \/ CommitFetch(g)
        \/ StoreLock(g)
        \/ StoreRead(g)
        \/ CommitUse(g)
        \/ StoreFree(g)
        \/ CommitWrite(g)

SpecCommit == CommitInit /\ [][CommitNext]_vars

(***************************************************************************)
(* C4  After any sequence of AddToHistory calls on a new account the       *)
(* history has at most 10 entries, is ordered newest first and consists of *)
(* exactly the most recent min(n, 10) transactions added.                  *)
(***************************************************************************)
HistoryIsMostRecent ==
    LET n == Len(hAdded)
        k == IF n < 10 THEN n ELSE 10
    IN /\ Len(hServer.history) <= 10
       /\ Len(hServer.history) = k
       /\ \A i \in 1..k : hServer.history[i] = hAdded[n + 1 - i]

\* An eleventh transaction has been added and the oldest one is gone.
HistoryOverflowed ==
    /\ Len(hAdded) >= 11
    /\ Len(hServer.history) = 10
    /\ hAdded[1] \notin Range(hServer.history)

(***************************************************************************)
(* C9  Within a single second GenerateTransactionID never returns the same *)
(* id twice: the values used in the current second are kept across calls   *)
(* and reset only when the clock second is greater than the last recorded  *)
(* one.                                                                    *)
(***************************************************************************)
IdsUniqueWithinSecond ==
    \A i, j \in 1..Len(issued) :
        (i # j /\ issued[i][2] = issued[j][2]) => issued[i][1] # issued[j][1]

(***************************************************************************)
(* C8  DatabaseTransaction.GetServers deduplicates its input by uid while  *)
(* preserving output order: for every list of names whose accounts all     *)
(* exist the call succeeds and result[i] is the held account whose uid is  *)
(* HomogeniseUsername(names[i]).                                           *)
(***************************************************************************)
GetServersKeepsOrder ==
    gDone =>
        /\ gOut.ok
        /\ Len(gOut.servers) = Len(gNames)
        /\ \A i \in 1..Len(gNames) :
              /\ gOut.servers[i] = HomogeniseUsername(gNames[i])
              /\ gOut.servers[i] \in DOMAIN gOut.cache
              /\ gOut.servers[i] \in gLocks

(***************************************************************************)
(* C5  The account lock manager gives exclusive holds: no uid is held by   *)
(* two callers at once, and a Lock call returns only when it holds every   *)
(* requested uid.                                                          *)
(***************************************************************************)
\* The caller has returned from Lock and not yet unlocked.
LockHolder(c) == lkPc[c] \in {"held", "unlock"}

LocksAreExclusive ==
    /\ \A c, d \in Callers :
          (c # d /\ LockHolder(c) /\ LockHolder(d)) =>
              Range(lkIds[c]) \cap Range(lkIds[d]) = {}
    /\ \A c \in Callers :
          LockHolder(c) =>
              \A i \in 1..Len(lkIds[c]) :
                  /\ lkIds[c][i] \in DOMAIN lkMap
                  /\ lkOwner[lkMap[lkIds[c][i]]] = c
                  /\ lkMap[lkIds[c][i]] \in lkLocked

\* One caller holds an account that another caller, back from waiting for
\* it, scans for again.
LockContended ==
    \E c, d \in Callers :
        /\ c # d
        /\ LockHolder(c)
        /\ lkPc[d] \in {"wait", "relock"}
        /\ Range(lkIds[c]) \cap Range(lkIds[d]) # {}

(***************************************************************************)
(* C6  Two concurrent transactions that fetch [A,B] and [B,A] never        *)
(* deadlock: under fair scheduling both eventually obtain both accounts    *)
(* and complete.                                                           *)
(***************************************************************************)
LockCallsComplete ==
    \A c \in Callers :
        /\ (lkPc[c] = "enter") ~> LockHolder(c)
        /\ LockHolder(c) ~> (lkPc[c] = "idle")

\* The two callers ask for the same two accounts in opposite orders and one
\* of them has to wait.
LockOppositeOrders ==
    \E c, d \in Callers :
        /\ lkIds[c] = <<<<"a">>, <<"b">>>>
        /\ lkIds[d] = <<<<"b">>, <<"a">>>>
        /\ LockHolder(c)
        /\ lkPc[d] = "wait"

(***************************************************************************)
(* C1  In every successful Pay between two distinct accounts the source    *)
(* balance decreases by exactly the base amount and the target balance     *)
(* increases by exactly the same base amount, so the sum of the two        *)
(* balances is the same after the call as before it.                       *)
(***************************************************************************)
PayConserves ==
    (pPc = "done" /\ pOut.err = "" /\ pArgs.sk # pArgs.tk) =>
        /\ pOut.amount \in PayBaseAmounts(pBefore[pArgs.sk], pArgs.sentAmount,
                                          pArgs.localCurrency)
        /\ pOut.transaction.Amount = pOut.amount
        /\ pCache[pArgs.sk].balance = pBefore[pArgs.sk].balance - pOut.amount
        /\ pCache[pArgs.tk].balance = pBefore[pArgs.tk].balance + pOut.amount
        /\ pCache[pArgs.sk].balance + pCache[pArgs.tk].balance
              = pBefore[pArgs.sk].balance + pBefore[pArgs.tk].balance

\* A payment between two accounts succeeded and the target's exchange rate
\* made the received amount differ from the base amount.
PayConverted ==
    /\ pPc = "done" /\ pOut.err = "" /\ pArgs.sk # pArgs.tk
    /\ pOut.transaction.ReceivedAmount # pOut.amount
    /\ pCache[pArgs.tk].balance > pBefore[pArgs.tk].balance

(***************************************************************************)
(* C10  When Pay is called with a base amount larger than the source       *)
(* balance it returns ERR_CANNOTAFFORD and leaves both accounts entirely   *)
(* unchanged: balances, histories, pending inboxes and modified flags are  *)
(* as before the call.  PayOverspendRefused states this as the claim has   *)
(* it; PayValidOverspendRefused states it for calls whose user names have  *)
(* at most 48 runes and whose sent and base amounts are strictly positive  *)
(* and at most the transaction limit.                                      *)
(***************************************************************************)
PayOverspendRefused ==
    (/\ pPc = "done"
     /\ \A amount \in PayBaseAmounts(pBefore[pArgs.sk], pArgs.sentAmount,
                                      pArgs.localCurrency) :
            amount > pBefore[pArgs.sk].balance) =>
        /\ pOut.err = "ERR_CANNOTAFFORD"
        /\ pCache = pBefore

PayValidOverspendRefused ==
    (/\ pPc = "done"
     /\ PasteuriseUsername(pArgs.source).runeCount <= 48
     /\ PasteuriseUsername(pArgs.target).runeCount <= 48
     /\ pArgs.sentAmount > 0 /\ pArgs.sentAmount <= transactionLimit
     /\ \A amount \in PayBaseAmounts(pBefore[pArgs.sk], pArgs.sentAmount,
                                      pArgs.localCurrency) :
            /\ amount > pBefore[pArgs.sk].balance
            /\ amount > 0 /\ amount <= transactionLimit) =>
        /\ pOut.err = "ERR_CANNOTAFFORD"
        /\ pCache = pBefore

\* Pay has refused a valid payment of more than the source holds.
PayOverspent ==
    /\ pPc = "done"
    /\ pOut.err = "ERR_CANNOTAFFORD"
    /\ pOut.amount > pBefore[pArgs.sk].balance
    /\ pArgs.sk # pArgs.tk

(***************************************************************************)
(* C2  After any sequence of API-level operations (pay, acknowledge,       *)
(* reject with its background compensating payments, each run inside its   *)
(* own DatabaseTransaction that is committed on success and aborted on     *)
(* error) the sum of the committed balances of all accounts equals its     *)
(* initial value.                                                          *)
(***************************************************************************)
CommittedSumConstant ==
    SumBalances(db, DOMAIN db) = SumBalances(LedgerStore, DOMAIN LedgerStore)

(***************************************************************************)
(* C3  Every account's balance is >= 0 in every reachable state, including *)
(* the intermediate states inside Pay, in both the in-memory account       *)
(* objects and the committed store, for any interleaving of concurrent     *)
(* payments and rejections.                                                *)
(***************************************************************************)
BalancesNeverNegative ==
    /\ \A u \in DOMAIN db : db[u].Balance >= 0
    /\ \A g \in Goroutines :
          \A k \in DOMAIN tr[g].servers : tr[g].servers[k].balance >= 0

\* Inside Pay, between the debit and the credit, the source has nothing
\* left while another goroutine is at work as well.
DebitedToZero ==
    \E g, h \in Goroutines :
        /\ g # h
        /\ pc[g] = "credit"
        /\ tr[g].servers[SourceKey(g)].balance = 0
        /\ pc[h] # "idle"

(***************************************************************************)
(* C7  Two concurrent transactions that each fetch, pay and commit on      *)
(* overlapping account sets are serialised: the committed final balances,  *)
(* histories and pending inboxes equal those produced by one of the two    *)
(* serial orders, and no committed update is lost.  From its read to its   *)
(* commit a transaction finds every account it holds stored exactly as it  *)
(* read it, so running the transactions one after the other in the order   *)
(* of their commits stores the same accounts.                              *)
(***************************************************************************)
TransactionsSerialised ==
    \A g \in Goroutines :
        ~tr[g].isNil =>
            \A u \in DOMAIN tr[g].servers :
                /\ u \in DOMAIN tr[g].read
                /\ db[u] = tr[g].read[u]

\* One handler is inside Pay with the source debited while the other
\* handler, with a pay request on an overlapping set of accounts, waits
\* for the account locks.
PaymentWaitsForPayment ==
    \E g, h \in Handlers :
        /\ g # h
        /\ pc[g] = "credit"
        /\ req[h].kind = "pay"
        /\ pc[h] = "lock"
        /\ ~IdsFree(dblock, LockIds(Deduplicate(loc[h].serverNames).names))
        /\ Range(LockIds(Deduplicate(loc[h].serverNames).names))
              \cap DOMAIN tr[g].servers # {}

(***************************************************************************)
(* C11  When Pay rejects a payment after the source has been debited,      *)
(* because the received amount is not strictly positive                    *)
(* (ERR_CANNOTPAYNOTHING) or exceeds the transaction limit                 *)
(* (ERR_TRANSACTIONLIMIT), the source account's balance is restored to its *)
(* value before the call before Pay returns.                               *)
(***************************************************************************)
PayRestoresOnRefusal ==
    (/\ pPc = "done"
     /\ pOut.err \in {"ERR_CANNOTPAYNOTHING", "ERR_TRANSACTIONLIMIT"}) =>
        pCache[pArgs.sk].balance = pBefore[pArgs.sk].balance

(***************************************************************************)
(* C12  A /v3/pay request that ends in any error code leaves the committed *)
(* store unchanged: the handler aborts its transaction, so the next fetch  *)
(* of the source and of the target observes the balances, histories and    *)
(* pending inboxes committed before the request, and all account locks     *)
(* taken by the request are released.  Every step a pay handler takes once *)
(* its error is known leaves the store as it is, ends the request, leaves  *)
(* the handler no account lock and its DatabaseTransaction without servers.*)
(***************************************************************************)
PayErrorLeavesStore ==
    [][\A h \in Handlers :
          (req[h].kind = "pay" /\ loc[h].err # "" /\ pc'[h] # pc[h]) =>
              /\ db' = db
              /\ pc'[h] = "idle"
              /\ tr'[h].isNil
              /\ \A u \in DOMAIN dblock' : dblock'[u] # h]_vars

\* A pay handler is about to answer with an error that Pay returned after
\* it had debited the source in the handler's DatabaseTransaction.
PayErrorAfterDebit ==
    \E h \in Handlers :
        /\ req[h].kind = "pay"
        /\ pc[h] = "free"
        /\ loc[h].err \in {"ERR_CANNOTPAYNOTHING", "ERR_TRANSACTIONLIMIT"}
        /\ tr[h].servers[SourceKey(h)].balance < db[SourceKey(h)].Balance
        /\ \E u \in DOMAIN dblock : dblock[u] = h


(***************************************************************************)
(* C13  Acknowledging or rejecting a transaction id that is not in the     *)
(* account's inbox, one that an earlier call already removed included,     *)
(* changes nothing: inbox, balance, history and the modified flag stay as  *)
(* they were and no compensating payment is started.                       *)
(***************************************************************************)
UnknownIdIsNoOp ==
    (/\ pPc = "done"
     /\ \A i \in 1..Len(pBefore[<<"a">>].pendingTransactions) :
           pBefore[<<"a">>].pendingTransactions[i].ID # pArgs.id) =>
        /\ pCache = pBefore
        /\ ~pOut.started

\* A call names an id that an earlier call removed, while another
\* transaction is still pending.
ProcessedIdAgain ==
    /\ pPc = "done"
    /\ pArgs.id \in pArgs.processed
    /\ pArgs.id \notin InboxIdsOf(pBefore[<<"a">>].pendingTransactions)
    /\ pBefore[<<"a">>].pendingTransactions # <<>>


(***************************************************************************)
(* C14  Rejecting a pending transaction starts a compensating payment      *)
(* exactly when the transaction is revertable, and the rejecting handler   *)
(* goes on to finish without waiting for it; a transaction that is not     *)
(* revertable is only removed.  A compensating payment that was started    *)
(* eventually, in a DatabaseTransaction of its own that holds the          *)
(* rejecting account and the original source account, gets Pay to return;  *)
(* when Pay succeeds its transaction goes from the original target user    *)
(* and account to the original source user and account, sends the original *)
(* received amount and is not revertable.                                  *)
(***************************************************************************)
\* The goroutine r of a rejection has called Pay and Pay has returned.
RevertPaid(r) ==
    /\ pc[r] = "free"
    /\ loc[r].servers =
          <<req[r].currentUID, HomogeniseUsername(req[r].transaction.SourceServer)>>
    /\ DOMAIN tr[r].servers = Range(loc[r].servers)
    /\ loc[r].err = "" =>
          LET self == tr[r].servers[req[r].currentUID]
              t == req[r].transaction
              paid == self.history[1]
          IN /\ self.history # <<>>
             /\ paid.Source = t.Target
             /\ paid.SourceServer = self.Name
             /\ paid.Target = t.Source
             /\ paid.TargetServer = t.SourceServer
             /\ paid.SentAmount = t.ReceivedAmount
             /\ ~paid.Revertable

FreesOnce ==
    [][\A g \in Handlers :
          /\ (pc[g] = "again" /\ pc'[g] # "again") =>
                /\ tr[g].isNil
                /\ pc'[g] = "idle"
                /\ UNCHANGED <<db, dbWriter, dblock, tr>>
          /\ (pc[g] = "free" /\ pc'[g] # "free") =>
                /\ \A u \in CachedUids(tr[g]) : u \notin DOMAIN dblock'
                /\ \A u \in DOMAIN dblock' : dblock'[u] # g
                /\ db' = db
                /\ IF loc[g].save
                   THEN pc'[g] = "write" /\ dbWriter' = g
                   ELSE pc'[g] = "idle" /\ tr'[g].isNil /\ dbWriter' = dbWriter
          /\ (pc[g] = "write" /\ pc'[g] # "write") =>
                /\ tr'[g].isNil
                /\ db' = Commit(db, tr[g].servers)
                /\ dblock' = dblock]_vars

\* Finish is called again on a DatabaseTransaction that was freed, while
\* the other caller holds an account it had held.
FreedAgainWhileHeld ==
    \E g \in Handlers, h \in Handlers :
        /\ g # h
        /\ pc[g] = "again"
        /\ loc[g].save
        /\ loc[g].ok
        /\ \E i \in 1..Len(StoreIds(g)) :
              /\ StoreIds(g)[i] \in DOMAIN dblock
              /\ dblock[StoreIds(g)[i]] = h


(***************************************************************************)
(* C16  In the plaintext backend a commit is visible as soon as its        *)
(* account locks are released: the next fetch or create of any of its uids *)
(* by another caller observes exactly the committed accounts, never the    *)
(* store between the release of the locks and the write.  An abort commits *)
(* nothing, so the next fetch observes the last earlier commit.            *)
(***************************************************************************)
\* The committed accounts: the store, with the accounts of a Finish that
\* has released its locks and has still to write.
CommittedView ==
    IF \E h \in Handlers : pc[h] = "write"
    THEN Commit(db, tr[CHOOSE h \in Handlers : pc[h] = "write"].servers)
    ELSE db

CommitsVisible ==
    [][/\ \A g \in Handlers :
             /\ (pc[g] = "read" /\ pc'[g] # "read") =>
                   /\ loc'[g].ok =
                         (\A i \in 1..Len(StoreIds(g)) :
                             StoreIds(g)[i] \in DOMAIN CommittedView)
                   /\ \A k \in DOMAIN tr'[g].servers :
                         tr'[g].servers[k] = Decode(CommittedView[k])
             /\ (pc[g] = "check" /\ pc'[g] # "check") =>
                   loc'[g].ok = (StoreIds(g)[1] \notin DOMAIN CommittedView)
       /\ (\A g \in Handlers : ~(pc[g] = "free" /\ pc'[g] = "write")) =>
             CommittedView' = CommittedView]_vars

\* A caller has fetched an account that the other caller changed and
\* committed.
CommittedChangeFetched ==
    \E g \in Handlers :
        /\ pc[g] = "held"
        /\ req[g].kind = "fetch"
        /\ loc[g].ok
        /\ \E k \in DOMAIN tr[g].servers \cap DOMAIN LedgerStore :
              tr[g].servers[k].balance > LedgerStore[k].Balance


(***************************************************************************)
(* C17  A backend fetch is all-or-nothing.  When every requested uid is    *)
(* stored the caller gets and holds all of them; when one is missing the   *)
(* call returns ok = false with the first missing uid and the caller holds *)
(* none of the requested uids afterwards.                                  *)
(***************************************************************************)
FetchAllOrNothing ==
    [][\A g \in Handlers :
          (pc[g] = "read" /\ pc'[g] # "read") =>
             LET ids == StoreIds(g)
                 missing == {i \in 1..Len(ids) : ids[i] \notin DOMAIN db}
             IN IF missing = {}
                THEN /\ loc'[g].ok
                     /\ DOMAIN tr'[g].servers = Range(ids)
                     /\ \A u \in Range(ids) :
                           u \in DOMAIN dblock' /\ dblock'[u] = g
                ELSE /\ ~loc'[g].ok
                     /\ \E i \in missing :
                           /\ loc'[g].bad = ids[i]
                           /\ \A k \in missing : i <= k
                     /\ tr'[g].servers = <<>>
                     /\ \A u \in DOMAIN dblock' : dblock'[u] # g]_vars

\* A fetch of an account that exists and one that is missing has failed,
\* and the other caller holds the account that exists.
FailedFetchReleased ==
    \E g \in Handlers, h \in Handlers :
        /\ g # h
        /\ pc[g] = "held"
        /\ req[g].kind = "fetch"
        /\ Len(req[g].names) = 2
        /\ ~loc[g].ok
        /\ StoreIds(g)[1] \in DOMAIN dblock
        /\ dblock[StoreIds(g)[1]] = h


(***************************************************************************)
(* C18  Account uids are unique.  CreateServer returns a new account, held *)
(* by the caller, only when no committed account has that uid, and false   *)
(* otherwise; of two callers that create the same uid the second fails     *)
(* once the first has committed; and a created account is in the store     *)
(* only after its creator has committed.                                   *)
(***************************************************************************)
\* Caller g holds an account that it created and has not freed.
HoldsCreated(g) ==
    /\ req[g].kind = "create"
    /\ pc[g] \in {"held", "free"}
    /\ loc[g].ok

CreateIsUnique ==
    /\ [][\A g \in Handlers :
             (pc[g] = "check" /\ pc'[g] # "check") =>
                LET id == StoreIds(g)[1]
                IN IF id \in DOMAIN db
                   THEN /\ ~loc'[g].ok
                        /\ tr'[g].servers = <<>>
                        /\ \A u \in DOMAIN dblock' : dblock'[u] # g
                   ELSE /\ loc'[g].ok
                        /\ DOMAIN tr'[g].servers = {id}
                        /\ tr'[g].servers[id] = NewServer(loc[g].names[1], "tn")
                        /\ tr'[g].servers[id].UID = id
                        /\ id \in DOMAIN dblock' /\ dblock'[id] = g]_vars
    /\ [](\A g \in Handlers :
             HoldsCreated(g) =>
                /\ StoreIds(g)[1] \notin DOMAIN CommittedView
                /\ \A h \in Handlers \ {g} :
                      HoldsCreated(h) => StoreIds(h)[1] # StoreIds(g)[1])
    /\ [](\A u \in DOMAIN db : HomogeniseUsername(db[u].Name) = u)

\* A caller's create has failed because the other caller had created and
\* committed the account under another spelling of the name.
SecondCreateFailed ==
    \E g \in Handlers :
        /\ req[g].kind = "create"
        /\ pc[g] = "held"
        /\ ~loc[g].ok
        /\ StoreIds(g)[1] \notin DOMAIN LedgerStore
        /\ db[StoreIds(g)[1]].Name # loc[g].names[1]


(***************************************************************************)
(* C19  ChangeBal(delta) returns false and changes nothing, neither the    *)
(* balance nor the modified flag, when balance + delta is negative;        *)
(* otherwise it sets the balance to balance + delta, marks the account     *)
(* modified and returns true.                                              *)
(***************************************************************************)
ChangeBalContract ==
    pPc = "done" =>
        LET before == pBefore[<<"a">>]
            new_balance == before.balance + pArgs.num
        IN IF new_balance < 0
           THEN ~pOut.ok /\ pCache = pBefore
           ELSE /\ pOut.ok
                /\ pCache[<<"a">>] =
                      [before EXCEPT !.balance = new_balance, !.modified = TRUE]

\* ChangeBal has refused, on an account that is not modified, a delta that
\* would have left the balance one below zero.
ChangeBalRefused ==
    /\ pPc = "done"
    /\ ~pOut.ok
    /\ ~pCache[<<"a">>].modified
    /\ pBefore[<<"a">>].balance + pArgs.num = 0 - 1

(***************************************************************************)
(* C20  The target balance of a newly created account stays within         *)
(* [0, MaxTargetBalance] whatever SetTargetBalance calls are made on it.   *)
(* SetTargetBalance(v) returns false and leaves the target balance and the *)
(* modified flag as they were when v is negative or above                  *)
(* MaxTargetBalance, and otherwise stores v, marks the account modified    *)
(* and returns true.                                                       *)
(***************************************************************************)
TargetBalanceInRange ==
    /\ pCache[<<"a">>].targetBalance \in 0..MaxTargetBalance
    /\ pPc = "done" =>
          LET before == pBefore[<<"a">>]
              v == pArgs.targetBalance
          IN IF v < 0 \/ v > MaxTargetBalance
             THEN ~pOut.ok /\ pCache = pBefore
             ELSE /\ pOut.ok
                  /\ pCache[<<"a">>] =
                        [before EXCEPT !.targetBalance = v, !.modified = TRUE]

\* SetTargetBalance has refused the value just above the maximum on an
\* account that is not modified.
TargetAboveMaxRefused ==
    /\ pPc = "done"
    /\ pArgs.targetBalance = MaxTargetBalance + 1
    /\ ~pOut.ok
    /\ ~pCache[<<"a">>].modified


(***************************************************************************)
(* C21  Whatever payments, acknowledgements and rejections were served,    *)
(* every transaction in the pending inbox of an account, stored or held by *)
(* a DatabaseTransaction, names that account as its target server and has  *)
(* a target user.  A successful Pay appends its transaction to the inbox   *)
(* of an account it records it in exactly when the account is the target   *)
(* server and the target user is not empty, so the source account gets it  *)
(* only when it is the target account as well.                             *)
(***************************************************************************)
\* Every transaction of the inbox ps is addressed to a user of the account
\* called name.
InboxIsOwn(name, ps) ==
    \A i \in 1..Len(ps) : ps[i].TargetServer = name /\ ps[i].Target # <<>>

InboxHoldsOwnTransactions ==
    /\ [](\A u \in DOMAIN db : InboxIsOwn(db[u].Name, db[u].PendingTransactions))
    /\ [](\A g \in Goroutines : \A k \in DOMAIN tr[g].servers :
             InboxIsOwn(tr[g].servers[k].Name, tr[g].servers[k].pendingTransactions))
    /\ [][\A g \in Goroutines :
             (pc[g] = "credit" /\ pc'[g] = "free" /\ loc'[g].err = "") =>
                LET t == tr'[g].servers[TargetKey(g)].history[1]
                IN \A k \in {SourceKey(g), TargetKey(g)} :
                      LET before == tr[g].servers[k]
                          after == tr'[g].servers[k]
                      IN /\ after.history[1] = t
                         /\ after.pendingTransactions =
                               IF before.Name = t.TargetServer /\ t.Target # <<>>
                               THEN Append(before.pendingTransactions, t)
                               ELSE before.pendingTransactions]_vars

\* A payment that names no target user has succeeded and is in the history
\* of the target account, whose inbox is empty.
PaidWithoutTargetUser ==
    \E g \in Handlers :
        /\ pc[g] = "free"
        /\ req[g].kind = "pay"
        /\ req[g].target = <<>>
        /\ loc[g].err = ""
        /\ tr[g].servers[TargetKey(g)].history # <<>>
        /\ tr[g].servers[TargetKey(g)].history[1].Target = <<>>
        /\ tr[g].servers[TargetKey(g)].pendingTransactions = <<>>


FirstFailingCheck(amount) ==
    IF PasteuriseUsername(pArgs.source).runeCount > 48
    THEN "ERR_SOURCEUSERNAMETOOLONG"
    ELSE IF PasteuriseUsername(pArgs.target).runeCount > 48
    THEN "ERR_USERNAMETOOLONG"
    ELSE IF pArgs.sentAmount <= 0 \/ amount <= 0
    THEN "ERR_INVALIDAMOUNT"
    ELSE IF pArgs.sentAmount > transactionLimit \/ amount > transactionLimit
    THEN "ERR_TRANSACTIONLIMIT"
    ELSE ""

PayValidatesInOrder ==
    pPc = "done" =>
        /\ pOut.amount \in PayBaseAmounts(pBefore[pArgs.sk], pArgs.sentAmount,
                                          pArgs.localCurrency)
        /\ FirstFailingCheck(pOut.amount) # "" =>
              /\ pOut.err = FirstFailingCheck(pOut.amount)
              /\ pCache = pBefore
        /\ pOut.err = "ERR_CANNOTAFFORD" <=>
              /\ FirstFailingCheck(pOut.amount) = ""
              /\ pOut.amount > pBefore[pArgs.sk].balance

\* Pay has refused a call in which both user names are too long and the
\* sent amount is above the transaction limit.
PayRefusedAtFirstCheck ==
    /\ pPc = "done"
    /\ pArgs.source = LongUsername /\ pArgs.target = LongUsername
    /\ pArgs.sentAmount > transactionLimit
    /\ pArgs.sk # pArgs.tk
    /\ pOut.err = "ERR_SOURCEUSERNAMETOOLONG"


(***************************************************************************)
(* C28  A successful Pay whose source and target are the same account      *)
(* leaves the balance of that account unchanged, adds exactly one history  *)
(* entry, not two, and adds one pending entry when the target user is not  *)
(* empty.                                                                  *)
(***************************************************************************)
PayToSelfRecordsOnce ==
    (pPc = "done" /\ pOut.err = "" /\ pArgs.sk = pArgs.tk) =>
        LET before == pBefore[pArgs.sk]
            after == pCache[pArgs.sk]
            t == pOut.transaction
        IN /\ after.balance = before.balance
           /\ after.history = <<t>> \o before.history
           /\ t.SourceServer = before.Name /\ t.TargetServer = before.Name
           /\ t.Target # <<>> =>
                 after.pendingTransactions =
                     Append(before.pendingTransactions, t)

\* An account has paid itself through an exchange rate that is not fixed.
PaidToSelf ==
    /\ pPc = "done" /\ pOut.err = "" /\ pArgs.sk = pArgs.tk
    /\ pBefore[pArgs.sk].targetBalance # 0
    /\ pOut.transaction.Target # <<>>
    /\ Len(pCache[pArgs.sk].history) = 1


(***************************************************************************)
(* C24  HomogeniseUsername is idempotent and absorbs PasteuriseUsername:   *)
(* homogenise(homogenise(x)) = homogenise(x) and                           *)
(* homogenise(pasteurise(x)) = homogenise(x) for every name x.  So the uid *)
(* under which DatabaseTransaction.CreateServer caches and locks a         *)
(* pasteurised name is the uid of the account it creates, and is the       *)
(* homogenised name it was called with.                                    *)
(***************************************************************************)
HomogeniseAbsorbs ==
    LET x == pArgs.name
        uid == HomogeniseUsername(x)
    IN /\ HomogeniseUsername(uid) = uid
       /\ HomogeniseUsername(PasteuriseUsername(x).res) = uid
       /\ (pPc = "done" /\ pOut.op = "homogenise") =>
             HomogeniseUsername(pOut.res) = pOut.res
       /\ (pPc = "done" /\ pOut.op = "pasteurise") =>
             HomogeniseUsername(pOut.res) = uid
       /\ (pPc = "done" /\ pOut.op = "create") =>
             /\ DOMAIN pCache = {uid}
             /\ pCache[uid].UID = uid
             /\ pBefore = {uid}

\* CreateServer was called with a name that pasteurising and homogenising
\* both change: spaces around it, an upper-case letter and a character that
\* is not graphic.
CreatedUnderHomogenisedName ==
    /\ pPc = "done" /\ pOut.op = "create"
    /\ pArgs.name = <<" ", "B", "\t">>
    /\ pOut.res = <<"B", ReplacementChar>>
    /\ DOMAIN pCache = {<<"b", "_">>}


(***************************************************************************)
(* C25  Currency round trip: for every Currency c, a signed count of       *)
(* hundredths, ParseCurrency(c.RawString()) is c, and decoding the JSON    *)
(* that MarshalJSON produces for c gives c again.                          *)
(***************************************************************************)
CurrencyRoundTrip ==
    /\ pPc = "parsed" => (pOut.ok /\ pOut.raw = pArgs.c)
    /\ pPc = "decoded" => (pOut.ok /\ pOut.raw = pArgs.c)


(***************************************************************************)
(* C26  Backup followed by restore is a fixed point per account:           *)
(* Decode(Encode(s)) has the uid, name, balance, target balance, history,  *)
(* pending inbox, token and webhook URL of s, and after RestoreDatabase of *)
(* a snapshot every account named in the snapshot is in the store, created *)
(* if it was missing, with exactly the state of its record in the store    *)
(* that was backed up; each record is committed in its own transaction and *)
(* no lock is held between records.                                        *)
(***************************************************************************)
BackupRestoreFixedPoint ==
    /\ \A k \in DOMAIN tr[1].servers :
          Decode(Encode(tr[1].servers[k]))
              = [tr[1].servers[k] EXCEPT !.modified = FALSE]
    /\ pc[1] \in {"get", "done"} =>
          /\ tr[1].isNil
          /\ \A u \in DOMAIN dblock : dblock[u] # 1
          /\ \A u \in DOMAIN loc[1].source :
                (pc[1] = "done" \/ \E i \in 1..(loc[1].i - 1) :
                                      LockIds(<<loc[1].records[i].Name>>)[1] = u) =>
                    /\ u \in DOMAIN db
                    /\ db[u] = loc[1].source[u]


EachHeld == {u \in DOMAIN dblock : dblock[u] = 1}

ForEachOneAtATime ==
    /\ [](Cardinality(EachHeld) <= 1)
    /\ [](pc[1] \in {"next", "lock", "done"} => EachHeld = {})
    /\ [](pc[1] = "done" => tr[1].isNil)
    /\ [](LET names == loc[1].serverNames
              visited == loc[1].visited
          IN /\ \A j \in 1..Len(names) : \A k \in (j + 1)..Len(names) :
                   StringLess(names[j], names[k])
             /\ \A j \in 1..Len(visited) :
                   /\ visited[j] \in Range(names)
                   /\ \A k \in (j + 1)..Len(visited) :
                         StringLess(visited[j], visited[k])
             /\ (pc[1] = "done" /\ loc[1].err = "" /\ loc[2].deletes = 0) =>
                   visited = names
             /\ pc[1] \in {"visit", "free"} => EachHeld = {names[loc[1].i]})
    /\ [][/\ (pc[1] = "free" /\ pc'[1] # "free") =>
                /\ (pc'[1] = "write") = req[1].saveChanges
                /\ (~req[1].saveChanges) => (db' = db /\ tr'[1].isNil)
          /\ (pc[1] = "write" /\ pc'[1] = "next") =>
                /\ tr'[1].isNil
                /\ \A k \in DOMAIN tr[1].servers :
                      k \in DOMAIN db' /\ db'[k] = Encode(tr[1].servers[k])
          /\ loc[1].err # "" =>
                /\ loc'[1].err = loc[1].err
                /\ loc'[1].visited = loc[1].visited
                /\ loc[1].ended = "returned"
                /\ pc[1] \in {"abort", "done", "crashed"}]_vars

\* ForEach with saveChanges has returned the error that f returned for the
\* second account; the change to the first account is stored.
ForEachStoppedAtError ==
    /\ pc[1] = "done" /\ loc[1].err = "ERR_F" /\ loc[1].ended = "returned"
    /\ req[1].saveChanges
    /\ loc[1].visited = <<<<"a">>, <<"b">>>>
    /\ db[<<"a">>].Balance = EachStore[<<"a">>].Balance + 1
    /\ db[<<"b">>] = EachStore[<<"b">>]
    /\ EachHeld = {}

(***************************************************************************)
(* C30  If an account in the uid snapshot of ForEach has been deleted      *)
(* before ForEach reaches it, ForEach ignores that uid and continues: f is *)
(* still applied to every remaining account that exists and ForEach        *)
(* returns normally.                                                       *)
(***************************************************************************)
ForEachSkipsDeleted ==
    pc[1] = "done" =>
        /\ loc[1].ended = "returned"
        /\ loc[1].err = "" =>
              \A u \in Range(loc[1].serverNames) \cap DOMAIN db :
                  u \in Range(loc[1].visited)


(***************************************************************************)
(* C31  A DatabaseTransaction takes account locks from the backend fetch   *)
(* at most once between releases.  A GetServers call goes to the backend   *)
(* only when self.servers is nil; a further call before Finish or Abort    *)
(* changes neither the locks nor the store, returns the held accounts      *)
(* under the requested names when every name is a key of the cache and     *)
(* panics otherwise; and no caller waits for the lock manager while it     *)
(* holds a lock.                                                           *)
(***************************************************************************)
SecondGetServersUsesCache ==
    /\ [](\A g \in Handlers :
             pc[g] = "lock" => \A u \in DOMAIN dblock : dblock[u] # g)
    /\ [][\A g \in Handlers :
             /\ (pc[g] # "lock" /\ pc'[g] = "lock" /\ req'[g].kind = "fetch") =>
                   tr[g].isNil
             /\ (loc'[g] # loc[g] /\ pc[g] = "held" /\ req'[g] = req[g]
                                  /\ loc'[g].calls # loc[g].calls) =>
                   LET names == loc'[g].second
                       cache == tr[g].servers
                   IN /\ ~tr[g].isNil
                      /\ dblock' = dblock /\ db' = db /\ tr' = tr
                      /\ IF \A i \in 1..Len(names) : names[i] \in DOMAIN cache
                         THEN /\ pc'[g] = "held"
                              /\ loc'[g].ret.ok
                              /\ Len(loc'[g].ret.servers) = Len(names)
                              /\ \A i \in 1..Len(names) :
                                    /\ cache[loc'[g].ret.servers[i]] = cache[names[i]]
                                    /\ dblock[cache[names[i]].UID] = g
                         ELSE pc'[g] = "panicked"]_vars

\* A further GetServers call panicked on a DatabaseTransaction that holds
\* accounts, and a further call of the other caller was served.
SecondGetServersPanicked ==
    /\ pc[1] = "panicked"
    /\ tr[1].servers # <<>>
    /\ pc[2] = "held"
    /\ loc[2].calls > 0
    /\ loc[2].ret.ok


(***************************************************************************)
(* C32  For an account with balance B and non-zero target T and a non-zero *)
(* amount, GetExchangeRate returns the quotient of the formula: with       *)
(* B' = max(B, 0.01), base_rate = T/B', adjusted = B' - amount/base_rate   *)
(* truncated to hundredths (to base) or B' + amount (from base) and        *)
(* rate = (base_rate + T/adjusted)/2, the result is amount/rate (to base)  *)
(* or amount*rate (from base) truncated toward zero at the hundredths; for *)
(* B = 250,000.00, T = 500,000.00 and 100.00 converted from base it is     *)
(* 199.96.  In hundredths rate is T * (adjusted + B') / (2 * B' *          *)
(* adjusted).                                                              *)
(***************************************************************************)
RateFormula(B, T, amount, toLurkcoin) ==
    LET bal == IF B > 1 THEN B ELSE 1
        adjusted == IF toLurkcoin THEN bal - Trunc(amount * bal, T)
                    ELSE bal + amount
        num == T * (adjusted + bal)
        den == 2 * bal * adjusted
    IN IF toLurkcoin THEN Trunc(amount * den, num) ELSE Trunc(amount * num, den)

ExchangeRateIsFormula ==
    pPc = "converted" =>
        IF pArgs.balance = 25000000
        THEN (~pOut.toLurkcoin) => pOut.res = 19996
        ELSE LET bal == IF pArgs.balance > 1 THEN pArgs.balance ELSE 1
                 adjusted == IF pOut.toLurkcoin
                             THEN bal - Trunc(pArgs.amount * bal, pArgs.targetBalance)
                             ELSE bal + pArgs.amount
             IN (adjusted # 0 /\ adjusted + bal # 0) =>
                    pOut.res = RateFormula(pArgs.balance, pArgs.targetBalance,
                                           pArgs.amount, pOut.toLurkcoin)


(***************************************************************************)
(* C33  With A at target 0 and B at balance 250,000.00 and target          *)
(* 500,000.00, after A pays B 100.00 base units revertably and B rejects   *)
(* the transaction, the compensating payment is made, it is of 199.96 in   *)
(* the local currency of B, and the balance of A is within one hundredth   *)
(* of what it was before the first payment.                                *)
(***************************************************************************)
RejectionRestoresBalance ==
    (/\ pPc = "paid"
     /\ pArgs.sentAmount = 10000
     /\ pArgs.revertable
     /\ pOut.rejected # <<>>) =>
        /\ Len(pOut.payments) = 2
        /\ pOut.rejected[1] = pOut.payments[1]
        /\ pOut.payments[2].SourceServer = <<"B">>
        /\ pOut.payments[2].TargetServer = <<"a">>
        /\ pOut.payments[2].SentAmount = 19996
        /\ pCache[<<"a">>].balance - pBefore[<<"a">>].balance \in {-1, 0, 1}

\* The rejected payment of 100.00 was paid back with 199.96 of B, and A
\* has one hundredth less than before.
RejectionPaidBack ==
    /\ pPc = "paid"
    /\ pArgs.sentAmount = 10000
    /\ Len(pOut.payments) = 2
    /\ pOut.payments[2].SentAmount = 19996
    /\ pOut.payments[2].Amount = 9999
    /\ pCache[<<"a">>].balance = pBefore[<<"a">>].balance - 1

(***************************************************************************)
(* C34  A compensating payment is recorded as not revertable, so rejecting *)
(* it starts no payment: a payment is only ever started for the first      *)
(* payment, and one original payment is followed by at most one            *)
(* compensating payment.                                                   *)
(***************************************************************************)
CompensationNotRevertable ==
    /\ Len(pOut.payments) <= 2
    /\ \A i \in 2..Len(pOut.payments) : ~pOut.payments[i].Revertable
    /\ pOut.started =>
          /\ Len(pOut.payments) = 1
          /\ pOut.transaction = pOut.payments[1]
          /\ pOut.transaction.Revertable
    /\ pPc = "started" <=> pOut.started

\* The compensating payment was rejected from the inbox of A, and nothing
\* was started.
CompensationRejected ==
    /\ pPc = "paid"
    /\ Len(pOut.payments) = 2
    /\ Len(pOut.rejected) = 2
    /\ pOut.rejected[2] = pOut.payments[2]
    /\ ~pOut.started
    /\ pCache[<<"a">>].pendingTransactions = <<>>


(***************************************************************************)
(* C35  A revertable transaction is reverted at most once, whatever the    *)
(* order of the acknowledge and reject requests that name its id.  The     *)
(* goroutine that pays back is started only by a handler that holds the    *)
(* account with the transaction in its inbox, stored and as read, and that *)
(* removes it in the DatabaseTransaction it will commit, while no other    *)
(* such goroutine runs; until that commit no other goroutine has the       *)
(* account; and a transaction that has left the stored inbox, by a         *)
(* committed acknowledgement or rejection, never returns to it.            *)
(***************************************************************************)
RevertedAtMostOnce ==
    /\ [][\A h \in Handlers :
             (req[Reverter(h)].kind # "revert" /\ req'[Reverter(h)].kind = "revert") =>
                 /\ req'[Reverter(h)].transaction = OnceTransaction
                 /\ OnceTransaction \in Range(db[<<"b">>].PendingTransactions)
                 /\ <<"b">> \in DOMAIN tr[h].servers
                 /\ OnceTransaction \in Range(tr[h].servers[<<"b">>].pendingTransactions)
                 /\ OnceTransaction \notin Range(tr'[h].servers[<<"b">>].pendingTransactions)
                 /\ loc'[h].save
                 /\ pc'[h] = "free"
                 /\ \A g \in Goroutines \ Handlers : req[g].kind # "revert"]_vars
    /\ [][OnceTransaction \notin Range(db[<<"b">>].PendingTransactions)
             => OnceTransaction \notin Range(db'[<<"b">>].PendingTransactions)]_vars
    /\ [](\A g \in Goroutines : \A h \in Goroutines \ {g} :
             DOMAIN tr[g].servers \cap DOMAIN tr[h].servers = {})
    /\ [](\A h \in Handlers :
             (/\ pc[h] \in {"free", "write"}
              /\ <<"b">> \in DOMAIN tr[h].servers
              /\ OnceTransaction \notin Range(tr[h].servers[<<"b">>].pendingTransactions))
                 => loc[h].save)

\* A rejection of the id has started the goroutine and has not committed
\* yet, while an acknowledgement of the same id waits at the other
\* handler.
RejectedWhileAcknowledging ==
    /\ req[1].kind = "reject_transactions"
    /\ pc[1] = "free"
    /\ req[Reverter(1)].kind = "revert"
    /\ req[Reverter(1)].transaction = OnceTransaction
    /\ req[2].kind = "acknowledge_transactions"
    /\ req[2].username = <<"B">>
    /\ req[2].transactions = req[1].transactions
    /\ pc[2] = "lock"


(***************************************************************************)
(* C36  The goroutine that pays a rejected transaction back commits only   *)
(* what a successful Pay did: when its Pay has returned an error, the      *)
(* commit that ends the goroutine leaves the stored accounts, their        *)
(* balances, histories and inboxes, as they were.                          *)
(***************************************************************************)
CompensationErrorKeepsStore ==
    [][\A g \in Goroutines \ Handlers :
          (pc[g] \in {"free", "write"} /\ loc[g].err # "" /\ pc'[g] = "idle")
              => db' = db]_vars


(***************************************************************************)
(* C37  RemoveFirstPendingTransactions(n) returns for every n and every    *)
(* inbox: for n < 1 the inbox is as it was, for n >= 1 the first n         *)
(* entries, or all of them when there are fewer, are removed and the       *)
(* others keep their order; the remove_transactions endpoint of the        *)
(* version 2 API calls it with n = 1 when the form gives no amount.        *)
(***************************************************************************)
RemoveFirstIsDefined ==
    pPc # "ready" =>
        LET before == pBefore[<<"a">>].pendingTransactions
            n == pOut.amount
            removed == IF n < 1 THEN 0
                       ELSE IF n < Len(before) THEN n ELSE Len(before)
        IN /\ ~pOut.panicked
           /\ pCache[<<"a">>].pendingTransactions =
                  SubSeq(before, removed + 1, Len(before))


(***************************************************************************)
(* C38  A commit writes exactly the accounts it holds whose modified flag  *)
(* is set, and the flag is set exactly on the accounts on which a change   *)
(* succeeded: an account that was only read, or on which the change        *)
(* failed, is not written, every written account is stored as the caller   *)
(* left it, and every other stored account stays as it was; an abort       *)
(* writes nothing.                                                         *)
(***************************************************************************)
CommitWritesModified ==
    /\ [](\A g \in Handlers :
             pc[g] \in {"free", "write"} =>
                 \A k \in DOMAIN tr[g].servers :
                     tr[g].servers[k].modified <=> tr[g].servers[k].UID \in loc[g].changed)
    /\ [][\A g \in Handlers :
             (pc[g] = "write" /\ pc'[g] = "idle") =>
                 /\ loc'[g].written = loc[g].changed
                 /\ DOMAIN db' = DOMAIN db
                 /\ \A u \in DOMAIN db :
                       db'[u] = IF u \in loc[g].changed
                                THEN Encode(tr[g].servers[u])
                                ELSE db[u]]_vars
    /\ [][\A g \in Handlers : (pc[g] = "free" /\ pc'[g] # "free") => db' = db]_vars

\* A caller that held both accounts, removed the pending transaction of B
\* and only read a, has committed: B was written and a was not.
CommittedOneOfTwo ==
    \E g \in Handlers :
       /\ pc[g] = "idle"
       /\ Len(loc[g].names) = 2
       /\ loc[g].save
       /\ loc[g].changed = {<<"b">>}
       /\ loc[g].written = {<<"b">>}
       /\ db[<<"b">>].PendingTransactions = <<>>
       /\ db[<<"a">>] = OnceStore[<<"a">>]


(***************************************************************************)
(* C39  The ids that a DatabaseTransaction has the backend lock in one     *)
(* GetServers call are all different and get their entries in the lock     *)
(* map; the lock manager is asked to unlock only ids that the caller       *)
(* holds, by a fetch that found an account missing and by the release of   *)
(* the cached accounts, and after the release the lock map has no entry    *)
(* for them; an entry leaves the lock map only when its holder releases    *)
(* it.                                                                     *)
(***************************************************************************)
UnlocksOnlyHeld ==
    /\ [][\A g \in Goroutines :
             (pc[g] = "lock" /\ pc'[g] = "read") =>
                 LET ids == LockIds(loc'[g].names)
                 IN /\ Cardinality(Range(ids)) = Len(ids)
                    /\ \A u \in Range(ids) :
                          u \notin DOMAIN dblock /\ dblock'[u] = g]_vars
    /\ [][\A g \in Goroutines :
             (pc[g] = "read" /\ pc'[g] # "read") =>
                 LET ids == Range(LockIds(loc[g].names))
                 IN /\ \A u \in ids : u \in DOMAIN dblock /\ dblock[u] = g
                    /\ IF ids \subseteq DOMAIN db
                       THEN \A u \in ids : u \in DOMAIN dblock' /\ dblock'[u] = g
                       ELSE ids \cap DOMAIN dblock' = {}]_vars
    /\ [][\A g \in Goroutines :
             (pc[g] = "free" /\ pc'[g] # "free") =>
                 LET uids == {tr[g].servers[k].UID : k \in DOMAIN tr[g].servers}
                 IN /\ \A u \in uids : u \in DOMAIN dblock /\ dblock[u] = g
                    /\ uids \cap DOMAIN dblock' = {}]_vars
    /\ [][\A u \in DOMAIN dblock :
             (u \notin DOMAIN dblock' \/ dblock'[u] # dblock[u]) =>
                 /\ u \notin DOMAIN dblock'
                 /\ pc[dblock[u]] \in {"read", "free"}
                 /\ pc'[dblock[u]] # pc[dblock[u]]]_vars

\* A goroutine whose two names had one uid holds that uid once and is
\* about to release it.
HoldsDeduplicated ==
    \E g \in Goroutines :
       /\ pc[g] = "free"
       /\ loc[g].deduplicated
       /\ Len(loc[g].names) = 1
       /\ DOMAIN tr[g].servers = {<<"b">>}
       /\ dblock = (<<"b">> :> g)

====
